---------------------------- MODULE Spec2Model ----------------------------
(***************************************************************************)
(* TMCM-Lib: the TMCL command transceiver of a module (tmcm_lib/module.py) *)
(* with its heartbeat thread, the frame codec, and the parts of the motor  *)
(* and motor union (tmcm_lib/motor.py, tmcm_lib/motor_union.py,            *)
(* tmcm_lib/tmcm_3110/motor.py): moves, the moving detector, direction     *)
(* reversal, and the conversions of currents, velocities and               *)
(* accelerations.                                                          *)
(*                                                                         *)
(* The specifications share the variables:                                 *)
(*   SpecCodec  one caller, the classmethod level of module.py: identify,  *)
(*              construct and a port transceive, with the frames in state. *)
(*   Spec       caller threads and the heartbeat thread of one constructed *)
(*              module, one step per shared access (FairSpec adds the      *)
(*              scheduler's fairness).                                     *)
(*   SpecMotor  one caller, one handler per step, on the motors and a      *)
(*              motor union of one constructed module.                     *)
(*   SpecAxis   one caller, one handler per step, on one motor: moves,     *)
(*              stop, reads and direction reversal, with port failures.    *)
(*   SpecDrive  one caller on one motor: the setters of velocity,          *)
(*              acceleration, microstep resolution and position.           *)
(*   SpecCurrent one caller on one motor: the setter of the current.       *)
(*   SpecRestore one caller on one motor: the setters of velocity and      *)
(*              position, and the restore of the factory settings.         *)
(*   SpecReverse one caller on two motors: the coordinates of each and the *)
(*              reversal of the direction of each.                         *)
(*   SpecConvert one caller on one motor: velocities and accelerations at  *)
(*              the steps of the divisors.                                 *)
(*   SpecPosition one caller on two motors: the position of a motor and of *)
(*              the motor union.                                           *)
(*   SpecShared two caller threads on one motor, one step per access to a  *)
(*              field of the motor (FairSpecShared adds the fairness).     *)
(***************************************************************************)
EXTENDS Integers, Sequences, FiniteSets, TLC

(***************************************************************************)
(* Program constants.                                                      *)
(***************************************************************************)
ADDRESS_MINIMUM == 1
ADDRESS_MAXIMUM == 255
HEARTBEAT_TIMEOUT_DISABLED == 0
HEARTBEAT_TIMEOUT_LIMIT == 65535
MODEL_NUMBER_IGNORE == 0

SGP == 9
GGP == 10
SCO == 30
GAP == 6
MVP == 4
CTL_APPLICATION_STATUS_GET == 135
CTL_FIRMWARE_VERSION_GET == 136
CTL_FACTORY_SETTINGS_RESTORE == 137

SUCCESS == 100
COMMAND_LOADED == 101
CHECKSUM_WRONG == 1
COMMAND_INVALID == 2
VALUE_INVALID == 4

PARAMETER_HEARTBEAT_TIMEOUT == 68
COMMAND_REPLY_LENGTH == 9
CTL_FIRMWARE_VERSION_GET_TYPE_BINARY == 1
CTL_FACTORY_SETTINGS_RESTORE_VALUE == 1234

SAP == 5
ROR == 1
ROL == 2
MST == 3
GCO == 31
MVP_TYPE_ABSOLUTE == 0
MVP_TYPE_RELATIVE == 1
MVP_TYPE_COORDINATE == 2
MOVE_SYNCHRONOUSLY == 64
MOVE_ASYNCHRONOUSLY == 128

RAMP_MODE_POSITION == 0
RAMP_MODE_POSITION_SOFT == 1
RAMP_MODE_VELOCITY == 2

PARAMETER_POSITION_ACTUAL == 1
PARAMETER_VELOCITY_TARGET == 2
PARAMETER_VELOCITY_ACTUAL == 3
PARAMETER_POSITION_REACHED == 8
PARAMETER_RAMP_MODE == 138
PARAMETER_PULSE_DIVISOR_EXPONENT == 154
PARAMETER_RAMP_DIVISOR_EXPONENT == 153
PARAMETER_VELOCITY_MOVING == 4
PARAMETER_ACCELERATION_ACTUAL == 135
PARAMETER_ACCELERATION_MOVING == 5
PARAMETER_CURRENT_MOVING == 6
PARAMETER_MICROSTEP_RESOLUTION == 140

COORDINATE_COUNT == 20
MOTOR_COUNT == 3

INT32_MINIMUM == -2147483647 - 1
INT32_MAXIMUM == 2147483647

(***************************************************************************)
(* Frame codec.                                                            *)
(***************************************************************************)
RECURSIVE sum(_)
sum(data) == IF data = <<>> THEN 0 ELSE Head(data) + sum(Tail(data))

\* sum(data) & 0xFF
command_checksum_calculate(data) == sum(data) % 256

\* value.to_bytes(4, byteorder = 'big', signed = True): two's complement,
\* most significant byte first (\div floors, % is non-negative).
to_bytes_little(value) ==
    << value % 256,
       (value \div 256) % 256,
       (value \div 65536) % 256,
       (value \div 16777216) % 256 >>

to_bytes(value) ==
    << (value \div 16777216) % 256,
       (value \div 65536) % 256,
       (value \div 256) % 256,
       value % 256 >>

\* int.from_bytes(data, byteorder = 'big', signed = True)
from_bytes(data) ==
    (IF data[1] >= 128 THEN data[1] - 256 ELSE data[1]) * 16777216
    + data[2] * 65536 + data[3] * 256 + data[4]

\* The frame __command_request_transmit_port hands to port._transmit.
command_request_frame(address_, command, type_number, bank_number, value) ==
    LET data == <<address_, command, type_number, bank_number>> \o to_bytes(value)
    IN  Append(data, command_checksum_calculate(SubSeq(data, 1, 8)))

Return(value) == [raised |-> "none", value |-> value]
Raise(exception) == [raised |-> exception, value |-> 0]

\* The checks of __command_reply_receive_port with the address check first.
command_reply_receive_port_address_first(data, address_, command) ==
    LET value    == from_bytes(SubSeq(data, 5, 8))
        checksum == data[9]
    IN  IF data[2] # address_ THEN Raise("AddressException")
        ELSE IF checksum # command_checksum_calculate(SubSeq(data, 1, 8))
            THEN Raise("ChecksumReplyException")
        ELSE IF data[3] = CHECKSUM_WRONG THEN Raise("ChecksumRequestException")
        ELSE IF data[3] # SUCCESS THEN Raise("InternalException")
        ELSE IF data[4] # command THEN Raise("InternalException")
        ELSE Return(value)

\* The checks of __command_reply_receive_port accepting COMMAND_LOADED.
command_reply_receive_port_loaded(data, address_, command) ==
    LET value    == from_bytes(SubSeq(data, 5, 8))
        checksum == data[9]
    IN  IF checksum # command_checksum_calculate(SubSeq(data, 1, 8))
            THEN Raise("ChecksumReplyException")
        ELSE IF data[2] # address_ THEN Raise("AddressException")
        ELSE IF data[3] = CHECKSUM_WRONG THEN Raise("ChecksumRequestException")
        ELSE IF data[3] \notin {SUCCESS, COMMAND_LOADED} THEN Raise("InternalException")
        ELSE IF data[4] # command THEN Raise("InternalException")
        ELSE Return(value)

\* __command_reply_receive_port on the 9 bytes read: data[1] is the host
\* address (ignored), data[2] the module address, data[3] the status,
\* data[4] the command number, data[5..8] the value, data[9] the checksum.
command_reply_receive_port(data, address_, command) ==
    LET address_reply  == data[2]
        status         == data[3]
        command_number == data[4]
        value          == from_bytes(SubSeq(data, 5, 8))
        checksum       == data[9]
    IN  IF checksum # command_checksum_calculate(SubSeq(data, 1, 8))
            THEN Raise("ChecksumReplyException")
        ELSE IF address_reply # address_ THEN Raise("AddressException")
        ELSE IF status = CHECKSUM_WRONG THEN Raise("ChecksumRequestException")
        ELSE IF status # SUCCESS THEN Raise("InternalException")
        ELSE IF command_number # command THEN Raise("InternalException")
        ELSE Return(value)

address_verify_upto_256(address_) ==
    ~(address_ < ADDRESS_MINIMUM \/ address_ > ADDRESS_MAXIMUM + 1)

\* __address_verify: TRUE when it returns, FALSE when it raises ValueError.
address_verify(address_) ==
    ~(address_ < ADDRESS_MINIMUM \/ address_ > ADDRESS_MAXIMUM)

\* The decoding of the identification reply in __firmware_version_get.
firmware_version_decode(value) ==
    [ model_number  |-> (value \div 65536) % 65536,
      version_major |-> (value \div 256) % 256,
      version_minor |-> value % 256 ]


(***************************************************************************)
(* State.                                                                  *)
(***************************************************************************)
VARIABLES
    \* SpecCodec: the port and the classmethod call in progress.
    port_tx,        \* the frame last handed to port._transmit (<<>>: none)
    port_rx,        \* the frame last returned by port._receive (<<>>: none)
    call,           \* the call: its arguments, its phase and its outcome
    \* Spec: one constructed module and the threads using it.
    address,                    \* Module.__address
    port_lock,                  \* Module.__port_lock: "free" or its holder
    heartbeat_thread,           \* Module.__heartbeat_thread: "none" or "thread"
    heartbeat_event,            \* Module.__heartbeat_event: "none", "clear", "set"
    heartbeat_event_timeout,    \* Module.__heartbeat_event_timeout, in 0.5 ms
    heartbeat_timeout,          \* Module.__heartbeat_timeout, in ms
    pc,             \* each thread's position
    op,             \* each thread's public operation in progress
    arg,            \* its argument
    raised,         \* the exception the operation has raised ("none": none)
    tx_count,       \* frames the thread's current transceive has transmitted
    rx_count,       \* replies the thread's current transceive has read
    wire_last,      \* kind of the last request frame on the port
    wire_reads,     \* replies read since that frame was transmitted
    wire_fault,     \* kind of a frame that had not exactly one reply read
                    \* when the next frame was transmitted ("none": none)
    wire_interleaved,   \* a frame was transmitted while another thread's
                        \* request was waiting for its reply
    \* SpecMotor: the motors of the module, the device, the handler called.
    motors,             \* each Motor object's fields
    device_coordinates, \* the device's coordinates, [number][motor]
    device_axes,        \* the device's positions and axis parameters, [motor]
    motor_call          \* the handler last called: its frames and outcome

codec_vars == <<port_tx, port_rx, call>>

module_vars ==
    <<address, port_lock, heartbeat_thread, heartbeat_event,
      heartbeat_event_timeout, heartbeat_timeout>>

thread_vars == <<pc, op, arg, raised, tx_count, rx_count>>

wire_vars == <<wire_last, wire_reads, wire_fault, wire_interleaved>>

motor_vars == <<motors, device_coordinates, device_axes, motor_call>>

vars == <<codec_vars, module_vars, thread_vars, wire_vars, motor_vars>>

(***************************************************************************)
(* Inputs.                                                                 *)
(***************************************************************************)
\* Addresses a caller passes: both bounds and the first values outside.
AddressInputs == {0, 1, 255, 256}

\* Model numbers a caller passes to construct, and the ones modules report.
ModelNumberInputs == {MODEL_NUMBER_IGNORE, 3110, 1110}

\* Identification replies: TMCM-3110 version 1.14, TMCM-1110 version 1.2.
IDENTITY_3110 == 3110 * 65536 + 1 * 256 + 14
IDENTITY_1110 == 1110 * 65536 + 1 * 256 + 2

\* Request and reply values: zero, the signs, the bounds of the signed
\* 32-bit field, a value with four different bytes, the identities.
ValueInputs == {0, -1, 1234, 16909060, INT32_MINIMUM, INT32_MAXIMUM}

ReplyValues == {0, -2, INT32_MINIMUM, IDENTITY_3110, IDENTITY_1110}

CommandInputs == {GGP, SGP}
TypeInputs == {0, PARAMETER_HEARTBEAT_TIMEOUT}
BankInputs == {0, 2}

StatusInputs == {SUCCESS, COMMAND_LOADED, CHECKSUM_WRONG, COMMAND_INVALID, VALUE_INVALID}

\* The host address byte of a reply.
HostAddresses == {2}

\* A module address other than address_, and a command other than command.
address_other(address_) == IF address_ = ADDRESS_MAXIMUM THEN address_ - 1 ELSE address_ + 1
command_other(command) == IF command = GAP THEN GGP ELSE GAP

\* The 9 bytes a module, or a disturbed line, may deliver as the reply to a
\* request: any address, status and command echo, and a checksum byte that
\* is right or off by one.
reply_frame(address_, status, command, value, k) ==
    LET host == CHOOSE h \in HostAddresses : TRUE
        data == <<host, address_, status, command>> \o to_bytes(value)
    IN  Append(data, (command_checksum_calculate(data) + k) % 256)

ReplyFrames(address_, command, values) ==
    { reply_frame(a, s, c, v, k) :
        a \in {address_, address_other(address_)},
        s \in StatusInputs,
        c \in {command, command_other(command)},
        v \in values,
        k \in {0, 1} }

(***************************************************************************)
(* A constructed module and its threads.                                   *)
(***************************************************************************)
Callers == {"caller_1", "caller_2"}

\* The caller that configures the module: the other one only commands.
Configurers == {"caller_1"}
HeartbeatThread == "heartbeat"
Threads == Callers \cup {HeartbeatThread}

\* The address the module was constructed with.
ModuleAddresses == {1}

\* Heartbeat timeouts a caller assigns: disabled, two enabled values, and
\* the first values outside [0, HEARTBEAT_TIMEOUT_LIMIT].
HeartbeatTimeoutInputs == {-1, 0, 250, 500, 65536}

\* Heartbeat timeouts the device may hold when the module is constructed.
HeartbeatTimeoutsDevice == {0, 250}

\* The state Module.__init__ leaves: no heartbeat thread, no event, the
\* heartbeat timeout as read from the device, every thread idle.
ModuleConstructed ==
    /\ address \in ModuleAddresses
    /\ port_lock = "free"
    /\ heartbeat_thread = "none"
    /\ heartbeat_event = "none"
    /\ heartbeat_event_timeout = 0
    /\ heartbeat_timeout \in HeartbeatTimeoutsDevice
    /\ pc = [t \in Threads |-> IF t = HeartbeatThread THEN "none" ELSE "idle"]
    /\ op = [t \in Threads |-> "none"]
    /\ arg = [t \in Threads |-> 0]
    /\ raised = [t \in Threads |-> "none"]
    /\ tx_count = [t \in Threads |-> 0]
    /\ rx_count = [t \in Threads |-> 0]
    /\ wire_last = "none"
    /\ wire_reads = 0
    /\ wire_fault = "none"
    /\ wire_interleaved = FALSE

(***************************************************************************)
(* Currents, velocities and accelerations (tmcm_3110).  A Python float f   *)
(* is kept as the pair of an integer m and an exponent x with              *)
(* f = m * 2^x * unit, where the unit is the odd part of the dividend of    *)
(* its conversion (5^6 fullsteps per second for a velocity, 5^12 fullsteps *)
(* per square second for an acceleration).  For mantissas below 2^21 each  *)
(* product and quotient the conversions compute has an exact binary64      *)
(* result, so the arithmetic below is the arithmetic of the floats.        *)
(***************************************************************************)
MOTOR_CURRENT_MAXIMUM == 2768
MOTOR_CURRENT_PORTIONS == 256
MOTOR_CURRENT_STEP_COUNT == 32
MOTOR_CURRENT_STEP_SIZE == MOTOR_CURRENT_PORTIONS \div MOTOR_CURRENT_STEP_COUNT
MOTOR_CURRENT_MINIMUM == MOTOR_CURRENT_MAXIMUM \div MOTOR_CURRENT_STEP_COUNT

VELOCITY_PORTIONS == 2048
ACCELERATION_PORTIONS == 2048
PULSE_DIVISOR_EXPONENT_MAXIMUM == 13
RAMP_DIVISOR_EXPONENT_MAXIMUM == 13
MICROSTEP_RESOLUTIONS == {1, 2, 4, 8, 16, 32, 64, 128, 256}

\* The number of bits of a natural number, and the minimum and maximum of
\* two integers.
RECURSIVE bit_length(_)
bit_length(n) == IF n = 0 THEN 0 ELSE 1 + bit_length(n \div 2)

min(a, b) == IF a < b THEN a ELSE b
max(a, b) == IF a > b THEN a ELSE b

\* The float m * 2^x, with an odd m, or 0.
RECURSIVE Float(_, _)
Float(m, x) ==
    IF m = 0 THEN [m |-> 0, x |-> 0]
    ELSE IF m % 2 = 0 THEN Float(m \div 2, x + 1)
    ELSE [m |-> m, x |-> x]

\* a < b for floats: by the signs, and by the magnitudes of two floats of
\* one sign.
float_less(a, b) ==
    LET less(c, d) ==
            LET top_c == bit_length(c.m) + c.x
                top_d == bit_length(d.m) + d.x
                low   == min(c.x, d.x)
            IN  IF c.m = 0 \/ d.m = 0 THEN c.m < d.m
                ELSE IF top_c # top_d THEN top_c < top_d
                ELSE c.m * 2 ^ (c.x - low) < d.m * 2 ^ (d.x - low)
        negated(c) == [m |-> 0 - c.m, x |-> c.x]
    IN  IF a.m < 0 /\ b.m < 0 THEN less(negated(b), negated(a))
        ELSE IF a.m < 0 \/ b.m < 0 THEN a.m < 0
        ELSE less(a, b)

\* int(a / b) for a float a that is not negative and a positive float b.
float_quotient_int(a, b) ==
    IF a.x >= b.x THEN (a.m * 2 ^ (a.x - b.x)) \div b.m
    ELSE IF b.x - a.x >= bit_length(a.m) THEN 0
    ELSE a.m \div (b.m * 2 ^ (b.x - a.x))

\* int(math.log(a / b, 2)) for positive floats a and b: the conversion to
\* int truncates towards zero.
float_quotient_log_int(a, b) ==
    LET bits_a == bit_length(a.m)
        bits_b == bit_length(b.m)
        bits == max(bits_a, bits_b)
        aligned_a == a.m * 2 ^ (bits - bits_a)
        aligned_b == b.m * 2 ^ (bits - bits_b)
        scale == (bits_a + a.x) - (bits_b + b.x)
        floor == IF aligned_a >= aligned_b THEN scale ELSE scale - 1
    IN  IF floor < 0 /\ aligned_a # aligned_b THEN floor + 1 ELSE floor

\* A _motor_current_internal that rounds the portion down.
motor_current_internal_floor(value) ==
    (value * MOTOR_CURRENT_PORTIONS) \div MOTOR_CURRENT_MAXIMUM - MOTOR_CURRENT_STEP_SIZE

\* Module._motor_current_internal, as the portion it returns for a value
\* within the limits.
motor_current_internal(value) ==
    (value * MOTOR_CURRENT_PORTIONS + MOTOR_CURRENT_PORTIONS - 1)
        \div MOTOR_CURRENT_MAXIMUM - MOTOR_CURRENT_STEP_SIZE

\* Module._motor_current_external
motor_current_external(portion) ==
    LET portion_steps == (portion + MOTOR_CURRENT_STEP_SIZE) \div MOTOR_CURRENT_STEP_SIZE
    IN  (MOTOR_CURRENT_MAXIMUM * portion_steps) \div MOTOR_CURRENT_STEP_COUNT

\* The dividends, in the units of the floats: 16 * 1_000_000 // 32 is
\* 2^5 * 5^6 and (16 * 1_000_000) ** 2 // 262_144 is 2^2 * 5^12.
VELOCITY_DIVIDEND == Float(((16 * 1000000) \div 32) \div (5 ^ 6), 0)
ACCELERATION_DIVIDEND == Float((((16 * 1000000) \div 512) \div (5 ^ 6)) ^ 2, 0)

\* Motor.__velocity_external (tmcm_3110)
velocity_external(pulse_divisor_exponent, portion, microstep_resolution) ==
    Float(portion * VELOCITY_DIVIDEND.m,
          VELOCITY_DIVIDEND.x - (bit_length(VELOCITY_PORTIONS) - 1)
              - pulse_divisor_exponent - (bit_length(microstep_resolution) - 1))

\* A __velocity_internal that scales the value by VELOCITY_PORTIONS.
velocity_internal_scaled(value, microstep_resolution) ==
    LET divisor == Float(value.m, value.x + bit_length(microstep_resolution) - 1)
        pulse_divisor_exponent ==
            min(PULSE_DIVISOR_EXPONENT_MAXIMUM,
                max(0, float_quotient_log_int(VELOCITY_DIVIDEND, divisor)))
        maximum == velocity_external(pulse_divisor_exponent, VELOCITY_PORTIONS - 1,
                                     microstep_resolution)
        portion == float_quotient_int(Float(VELOCITY_PORTIONS * value.m, value.x), maximum)
    IN  <<pulse_divisor_exponent, portion>>

\* A __velocity_internal that takes the greatest pulse divisor exponent
\* whose greatest velocity reaches the value.
velocity_internal_achievable(value, microstep_resolution) ==
    LET reaching == {exponent \in 0 .. PULSE_DIVISOR_EXPONENT_MAXIMUM :
                        ~float_less(velocity_external(exponent, VELOCITY_PORTIONS - 1,
                                                      microstep_resolution), value)}
        pulse_divisor_exponent ==
            IF reaching = {} THEN 0
            ELSE CHOOSE exponent \in reaching : \A other \in reaching : other <= exponent
        maximum == velocity_external(pulse_divisor_exponent, VELOCITY_PORTIONS - 1,
                                     microstep_resolution)
        portion == float_quotient_int(
                       Float((VELOCITY_PORTIONS - 1) * value.m, value.x), maximum)
    IN  <<pulse_divisor_exponent, portion>>

\* Motor.__velocity_internal (tmcm_3110): the pulse divisor exponent and
\* the portion of a positive velocity.
velocity_internal(value, microstep_resolution) ==
    LET divisor == Float(value.m, value.x + bit_length(microstep_resolution) - 1)
        pulse_divisor_exponent ==
            min(PULSE_DIVISOR_EXPONENT_MAXIMUM,
                max(0, float_quotient_log_int(VELOCITY_DIVIDEND, divisor)))
        maximum == velocity_external(pulse_divisor_exponent, VELOCITY_PORTIONS - 1,
                                     microstep_resolution)
        portion == float_quotient_int(
                       Float((VELOCITY_PORTIONS - 1) * value.m, value.x), maximum)
    IN  <<pulse_divisor_exponent, portion>>

\* Motor.__acceleration_external (tmcm_3110)
acceleration_external(pulse_divisor_exponent, ramp_divisor_exponent, portion, microstep_resolution) ==
    Float(portion * ACCELERATION_DIVIDEND.m,
          ACCELERATION_DIVIDEND.x - (bit_length(ACCELERATION_PORTIONS) - 1)
              - (pulse_divisor_exponent + ramp_divisor_exponent)
              - (bit_length(microstep_resolution) - 1))

\* Motor.__acceleration_internal (tmcm_3110): the ramp divisor exponent and
\* the portion of a positive acceleration.
acceleration_internal(pulse_divisor_exponent, value, microstep_resolution) ==
    LET divisor == Float(value.m, value.x + bit_length(microstep_resolution) - 1)
        ramp_divisor_exponent ==
            min(min(pulse_divisor_exponent + 1, RAMP_DIVISOR_EXPONENT_MAXIMUM),
                max(max(pulse_divisor_exponent - 1, 0),
                    float_quotient_log_int(ACCELERATION_DIVIDEND, divisor)
                        - pulse_divisor_exponent))
        maximum == acceleration_external(pulse_divisor_exponent, ramp_divisor_exponent,
                                         ACCELERATION_PORTIONS - 1, microstep_resolution)
        portion == float_quotient_int(
                       Float((ACCELERATION_PORTIONS - 1) * value.m, value.x), maximum)
    IN  <<ramp_divisor_exponent, portion>>

\* Motor._FREQUENCY_MINIMUM and Motor._FREQUENCY_MAXIMUM (tmcm_3110,
\* _initialize).
FREQUENCY_MINIMUM == velocity_external(PULSE_DIVISOR_EXPONENT_MAXIMUM, 1, 1)
FREQUENCY_MAXIMUM == velocity_external(0, VELOCITY_PORTIONS - 1, 1)

(***************************************************************************)
(* The motors of the module and the device they are on.                    *)
(***************************************************************************)
\* The motors of the module, and the motors of the motor union in the
\* order of its motor_numbers; the union uses the coordinate number 0.
Motors == {0, 1}
UnionMotors == <<0, 1>>
UnionCoordinateNumber == 0

\* A Python integer n as over * 2^32 + v with v a signed 32-bit number: the
\* numbers just outside the 32 bits are arguments a caller can pass.
Wide(over, v) == [over |-> over, v |-> v]
Int32(v) == Wide(0, v)
wide_less(a, b) == a.over < b.over \/ (a.over = b.over /\ a.v < b.v)

\* direction_sign * value
wide_times_sign(direction_sign, value) ==
    IF direction_sign = 1 THEN value
    ELSE IF value.v = INT32_MINIMUM THEN Wide(1 - value.over, INT32_MINIMUM)
    ELSE Wide(-value.over, -value.v)

\* a + b in the 32 bits of the device.
add32(a, b) ==
    IF b > 0 /\ a > INT32_MAXIMUM - b THEN (a - INT32_MAXIMUM - 1) + (b - INT32_MAXIMUM - 1)
    ELSE IF b < 0 /\ a < INT32_MINIMUM - b THEN (a + INT32_MAXIMUM + 1) + (b + INT32_MAXIMUM + 1)
    ELSE a + b

\* Positions a caller passes: both bounds, and 2^31 and -2^31 - 1, the
\* first values outside.
PositionsValid == {Int32(INT32_MINIMUM), Int32(INT32_MAXIMUM)}
PositionsInvalid == {Wide(1, INT32_MINIMUM), Wide(-1, INT32_MAXIMUM)}
PositionInputs == PositionsValid \cup PositionsInvalid

\* Positions a caller passes for the second motor of the union.
UnionPositionInputs == {Int32(INT32_MAXIMUM), Wide(1, INT32_MINIMUM)}

\* Distances a caller passes to move_by, and the motor numbers a caller
\* constructs a motor union of.
DistanceInputs == {Int32(0), Int32(INT32_MINIMUM), Wide(1, INT32_MINIMUM)}
MotorNumbersInputs == {<<>>, <<0>>, <<0, 1>>, <<1, 1>>, <<-1>>, <<0, MOTOR_COUNT>>}

\* Coordinate numbers a caller passes.
CoordinateNumbers == {0}
CoordinateNumberInputs == {-1, 0, COORDINATE_COUNT}

\* How often a handler that waits while the motor is moving reads a
\* parameter of the device at most.
MaxPolls == 2

\* The values the device answers the reads of one handler with: the
\* position reached flag, or a velocity that is 0 or not.
RECURSIVE Answers(_)
Answers(n) ==
    IF n = 0 THEN {<<>>}
    ELSE {<<value>> \o rest : value \in {0, 1}, rest \in Answers(n - 1)}

\* The exchange of a handler at which the port fails (0: none does).
Faults == {0, 1, 2}

\* The detector Motor._move_indicate chooses for a ramp mode.
moving_detect_of(ramp_mode) ==
    IF ramp_mode = RAMP_MODE_VELOCITY THEN "velocity" ELSE "position"

\* No handler is called: the caller has taken the outcome of the last.
MotorCallIdle ==
    [name |-> "none", motor |-> -1, arguments |-> <<>>,
     raised |-> "none", result |-> FALSE, frames |-> <<>>,
     position_written_in |-> <<>>, replies |-> <<>>]

(***************************************************************************)
(* The handlers of the motors and of the motor union (SpecMotor).  A        *)
(* handler is a function of the world: the objects, the device, the frames *)
(* exchanged so far and the values the device answers its reads with.  A   *)
(* world in which an exception is raised is left as it is by every         *)
(* statement that follows.                                                 *)
(***************************************************************************)
POSITION_MINIMUM == INT32_MINIMUM
POSITION_MAXIMUM == INT32_MAXIMUM

\* The world of a handler called on the given objects and device; fault
\* is the exchange at which the port fails (0: none).
WorldOf(motors_, coordinates, axes, answers, fault) ==
    [motors |-> motors_,
     device_coordinates |-> coordinates,
     device_axes |-> axes,
     frames |-> <<>>,
     position_written_in |-> <<>>,
     replies |-> <<>>,
     answers |-> answers,
     fault |-> fault,
     starved |-> FALSE,
     value |-> 0,
     result |-> FALSE,
     raised |-> "none"]

\* The world at the call of a handler.
World(answers) == WorldOf(motors, device_coordinates, device_axes, answers, 0)

raise(w, exception) == IF w.raised # "none" THEN w ELSE [w EXCEPT !.raised = exception]

\* The motors a motion command is for: the one of the bank number, or the
\* ones of a bit mask that has MOVE_SYNCHRONOUSLY or MOVE_ASYNCHRONOUSLY.
device_motors(w, bank_number) ==
    IF bank_number < MOVE_SYNCHRONOUSLY THEN {bank_number} \cap DOMAIN w.device_axes
    ELSE {m \in DOMAIN w.device_axes : (bank_number \div (2 ^ m)) % 2 = 1}

\* The axis parameters the device keeps as they are written.
DeviceParameters ==
    {PARAMETER_RAMP_MODE, PARAMETER_MICROSTEP_RESOLUTION,
     PARAMETER_PULSE_DIVISOR_EXPONENT, PARAMETER_RAMP_DIVISOR_EXPONENT,
     PARAMETER_VELOCITY_MOVING, PARAMETER_ACCELERATION_MOVING,
     PARAMETER_CURRENT_MOVING}

\* What the device keeps of a request: a coordinate (SCO), the actual
\* position (SAP, with the ramp mode it is written in), another axis
\* parameter (SAP), the target of a move (MVP); a move puts the axis into
\* the position ramp mode, a rotation or a stop into the velocity ramp mode.
device_store(w, command, type_number, bank_number, value) ==
    IF command = SCO /\ type_number \in CoordinateNumbers /\ bank_number \in DOMAIN w.device_axes
        THEN [w EXCEPT !.device_coordinates[type_number][bank_number] = value]
    ELSE IF command = SAP /\ type_number = PARAMETER_POSITION_ACTUAL
                                  /\ bank_number \in DOMAIN w.device_axes
        THEN [w EXCEPT !.device_axes[bank_number].position_actual = value,
                       !.device_axes[bank_number].position_target = value,
                       !.position_written_in =
                            Append(@, w.device_axes[bank_number].parameters[PARAMETER_RAMP_MODE])]
    ELSE IF command = SAP /\ type_number \in DeviceParameters
                                  /\ bank_number \in DOMAIN w.device_axes
        THEN [w EXCEPT !.device_axes[bank_number].parameters[type_number] = value]
    ELSE IF command = MVP
        THEN [w EXCEPT !.device_axes =
                [m \in DOMAIN w.device_axes |->
                    LET axis == w.device_axes[m]
                    IN  IF m \notin device_motors(w, bank_number) THEN axis
                        ELSE [axis EXCEPT
                                !.parameters[PARAMETER_RAMP_MODE] = RAMP_MODE_POSITION,
                                !.position_target =
                                CASE type_number = MVP_TYPE_ABSOLUTE -> value
                                  [] type_number = MVP_TYPE_RELATIVE ->
                                        add32(axis.position_actual, value)
                                  [] OTHER ->
                                        IF value \in CoordinateNumbers
                                            THEN w.device_coordinates[value][m]
                                            ELSE axis.position_target]]]
    ELSE IF command \in {ROR, ROL, MST} /\ bank_number \in DOMAIN w.device_axes
        THEN [w EXCEPT !.device_axes[bank_number].parameters[PARAMETER_RAMP_MODE] =
                            RAMP_MODE_VELOCITY]
    ELSE w

\* What the device answers a request with: the coordinate (GCO), the
\* actual position, or the next of the answers (a position reached flag
\* or a velocity; a motor that has reached its position is at its target).
device_answer(w, command, type_number, bank_number) ==
    IF command = GCO
        THEN [w EXCEPT !.value = IF type_number \in CoordinateNumbers
                                     THEN w.device_coordinates[type_number][bank_number]
                                     ELSE 0]
    ELSE IF command = GAP /\ type_number = PARAMETER_POSITION_ACTUAL
        THEN [w EXCEPT !.value = w.device_axes[bank_number].position_actual]
    ELSE IF command = GAP /\ w.answers = <<>>
        THEN [w EXCEPT !.starved = TRUE, !.value = 0]
    ELSE IF command = GAP
        THEN [w EXCEPT !.value = Head(w.answers),
                       !.answers = Tail(w.answers),
                       !.device_axes[bank_number].position_actual =
                            IF type_number = PARAMETER_POSITION_REACHED /\ Head(w.answers) = 1
                                THEN w.device_axes[bank_number].position_target
                                ELSE @]
    ELSE [w EXCEPT !.value = 0]

\* Module.__command_transceive: one request frame and its reply.  A value
\* outside the 32 bits raises OverflowError before the frame is sent; the
\* exchange at which the port fails raises after the frame is sent; the
\* device answers every other with status SUCCESS and the value that is
\* added to the replies.
transceive(w, command, type_number, bank_number, value) ==
    LET frame == [command |-> command, type_number |-> type_number,
                  bank_number |-> bank_number, value |-> value.v]
        sent == [w EXCEPT !.frames = Append(@, frame),
                          !.fault = IF @ > 0 THEN @ - 1 ELSE 0]
    IN  IF w.raised # "none" THEN w
        ELSE IF value.over # 0 THEN raise(w, "OverflowError")
        ELSE IF w.fault = 1 THEN raise(sent, "InternalException")
        ELSE LET answered ==
                    device_answer(device_store(sent, command, type_number, bank_number,
                                               value.v),
                                  command, type_number, bank_number)
             IN  [answered EXCEPT !.replies = Append(@, answered.value)]

axis_parameter_set(w, motor_number, parameter, value) ==
    transceive(w, SAP, parameter, motor_number, value)

axis_parameter_get(w, motor_number, parameter) ==
    transceive(w, GAP, parameter, motor_number, Int32(0))

motor_coordinate_position_set(w, motor_number, coordinate_number, position) ==
    transceive(w, SCO, coordinate_number, motor_number, position)

motor_coordinate_position_get(w, motor_number, coordinate_number) ==
    transceive(w, GCO, coordinate_number, motor_number, Int32(0))

motor_move_to_coordinate(w, motor_number, coordinate_number) ==
    transceive(w, MVP, MVP_TYPE_COORDINATE, motor_number, Int32(coordinate_number))

\* A position detector that reports the position reached and leaves the
\* motor marked as moving.
moving_detect_position_kept(w, m) ==
    LET w1 == axis_parameter_get(w, m, PARAMETER_POSITION_REACHED)
    IN  IF w1.raised # "none" THEN w1
        ELSE [w1 EXCEPT !.result = (w1.value = 0)]

\* A position detector that takes the move as ended at its first poll.
moving_detect_position_once(w, m) ==
    LET w1 == axis_parameter_get(w, m, PARAMETER_POSITION_REACHED)
    IN  IF w1.raised # "none" THEN w1
        ELSE [w1 EXCEPT !.motors[m].moving = FALSE,
                        !.motors[m].moving_detect = "false",
                        !.result = (w1.value = 0)]

\* Motor.__moving_detect_position
moving_detect_position(w, m) ==
    LET w1 == axis_parameter_get(w, m, PARAMETER_POSITION_REACHED)
    IN  IF w1.raised # "none" THEN w1
        ELSE IF w1.value = 0
            THEN [w1 EXCEPT !.result = TRUE]
            ELSE [w1 EXCEPT !.motors[m].moving = FALSE,
                            !.motors[m].moving_detect = "false",
                            !.result = FALSE]

\* A velocity detector that takes the move as ended when the target
\* velocity reads 0.
moving_detect_velocity_target(w, m) ==
    LET w1 == axis_parameter_get(w, m, PARAMETER_VELOCITY_TARGET)
    IN  IF w1.raised # "none" THEN w1
        ELSE IF w1.value # 0
            THEN [w1 EXCEPT !.result = TRUE]
            ELSE [w1 EXCEPT !.motors[m].moving = FALSE,
                            !.motors[m].moving_detect = "false",
                            !.result = FALSE]

\* Motor.__moving_detect_velocity_2
moving_detect_velocity_2(w, m) ==
    LET w1 == axis_parameter_get(w, m, PARAMETER_VELOCITY_ACTUAL)
    IN  IF w1.raised # "none" THEN w1
        ELSE IF w1.value # 0
            THEN [w1 EXCEPT !.result = TRUE]
            ELSE [w1 EXCEPT !.motors[m].moving = FALSE,
                            !.motors[m].moving_detect = "false",
                            !.result = FALSE]

\* Motor.__moving_detect_velocity
moving_detect_velocity(w, m) ==
    LET w1 == axis_parameter_get(w, m, PARAMETER_VELOCITY_TARGET)
    IN  IF w1.raised # "none" THEN w1
        ELSE IF w1.value # 0
            THEN [w1 EXCEPT !.result = TRUE]
            ELSE moving_detect_velocity_2(
                    [w1 EXCEPT !.motors[m].moving_detect = "velocity_2"], m)

\* Motor.moving (getter)
moving(w, m) ==
    IF w.raised # "none" THEN w
    ELSE IF ~w.motors[m].moving THEN [w EXCEPT !.result = FALSE]
    ELSE CASE w.motors[m].moving_detect = "position" -> moving_detect_position(w, m)
           [] w.motors[m].moving_detect = "velocity" -> moving_detect_velocity(w, m)
           [] w.motors[m].moving_detect = "velocity_2" -> moving_detect_velocity_2(w, m)
           [] OTHER -> [w EXCEPT !.result = FALSE]

\* Motor.wait_while_moving: while self.moving
RECURSIVE wait_while_moving(_, _)
wait_while_moving(w, m) ==
    LET w1 == moving(w, m)
    IN  IF w1.raised = "none" /\ w1.result = TRUE /\ ~w1.starved
            THEN wait_while_moving(w1, m)
            ELSE w1

\* Motor._position_verify, as the condition under which it returns.
position_verify(value) ==
    ~(wide_less(value, Int32(POSITION_MINIMUM)) \/ wide_less(Int32(POSITION_MAXIMUM), value))

\* A _move_indicate that keeps the cached position.
move_indicate_cached(w, m, ramp_mode) ==
    IF w.raised # "none" THEN w
    ELSE [w EXCEPT !.motors[m].ramp_mode = ramp_mode,
                   !.motors[m].moving = TRUE,
                   !.motors[m].moving_detect = moving_detect_of(ramp_mode)]

\* Motor._move_indicate
move_indicate(w, m, ramp_mode) ==
    IF w.raised # "none" THEN w
    ELSE [w EXCEPT !.motors[m].ramp_mode = ramp_mode,
                   !.motors[m].moving = TRUE,
                   !.motors[m].moving_detect = moving_detect_of(ramp_mode),
                   !.motors[m].position_valid = FALSE,
                   !.motors[m].position = Int32(0)]

\* Motor._position_set
position_set(w, m, value) ==
    LET motor == w.motors[m]
        w1 == IF motor.ramp_mode # RAMP_MODE_VELOCITY
                  THEN axis_parameter_set(w, m, PARAMETER_RAMP_MODE, Int32(RAMP_MODE_VELOCITY))
                  ELSE w
        w2 == axis_parameter_set(w1, m, PARAMETER_POSITION_ACTUAL,
                                 wide_times_sign(motor.direction_sign, value))
    IN  IF w.raised # "none" THEN w
        ELSE IF motor.position_valid /\ motor.position = value THEN w
        ELSE IF w2.raised # "none" THEN w2
        ELSE [w2 EXCEPT !.motors[m].position = value,
                        !.motors[m].position_valid = TRUE]

\* Motor.position (setter)
position_setter(w, m, value) ==
    LET w1 == moving(w, m)
    IN  IF w1.raised # "none" THEN w1
        ELSE IF w1.result THEN raise(w1, "StateException")
        ELSE IF ~position_verify(value) THEN raise(w1, "ValueError")
        ELSE position_set(w1, m, value)

\* Motor.position (getter)
position_getter(w, m) ==
    LET motor == w.motors[m]
        w1 == axis_parameter_get(w, m, PARAMETER_POSITION_ACTUAL)
        value == wide_times_sign(motor.direction_sign, Int32(w1.value))
    IN  IF motor.position_valid THEN [w EXCEPT !.result = motor.position]
        ELSE IF w1.raised # "none" THEN w1
        ELSE IF ~motor.moving
            THEN [w1 EXCEPT !.motors[m].position = value,
                            !.motors[m].position_valid = TRUE,
                            !.result = value]
        ELSE [w1 EXCEPT !.result = value]

\* Motor.velocity (getter): the velocity of the device is 0 or one portion.
velocity_getter(w, m) ==
    LET motor == w.motors[m]
        w1 == axis_parameter_get(w, m, PARAMETER_VELOCITY_ACTUAL)
        value == velocity_external(motor.pulse_divisor_exponent, w1.value,
                                   motor.microstep_resolution)
    IN  IF ~motor.moving THEN [w EXCEPT !.result = Float(0, 0)]
        ELSE IF w1.raised # "none" THEN w1
        ELSE [w1 EXCEPT !.result = Float(motor.direction_sign * value.m, value.x)]

\* Motor.acceleration_moving (getter)
acceleration_moving_getter(w, m) ==
    LET motor == w.motors[m]
    IN  [w EXCEPT !.result = Float(motor.direction_sign * motor.acceleration_moving.m,
                                   motor.acceleration_moving.x)]

\* Motor.acceleration (getter)
acceleration_getter(w, m) ==
    LET motor == w.motors[m]
        w1 == axis_parameter_get(w, m, PARAMETER_ACCELERATION_ACTUAL)
    IN  IF ~motor.moving THEN [w EXCEPT !.result = Float(0, 0)]
        ELSE IF w1.raised # "none" THEN w1
        ELSE [w1 EXCEPT !.result =
                acceleration_external(motor.pulse_divisor_exponent,
                                      motor.ramp_divisor_exponent, w1.value,
                                      motor.microstep_resolution)]

\* The end of a move: if wait_while_moving : self.wait_while_moving()
move_wait(w, m, wait) == IF wait THEN wait_while_moving(w, m) ELSE w

\* Motor.move_right (right) and Motor.move_left
move_rotate(w, m, right, wait) ==
    LET motor == w.motors[m]
        w1 == move_indicate(w, m, RAMP_MODE_VELOCITY)
        command == IF right = ~(motor.direction_sign < 0) THEN ROR ELSE ROL
    IN  move_wait(transceive(w1, command, 0, m, Int32(motor.velocity_moving_internal)),
                  m, wait)

\* Motor.move_to
move_to(w, m, position, wait) ==
    LET motor == w.motors[m]
        w1 == move_indicate(w, m, RAMP_MODE_POSITION)
        w2 == transceive(w1, MVP, MVP_TYPE_ABSOLUTE, m,
                         wide_times_sign(motor.direction_sign, position))
    IN  IF ~motor.moving /\ motor.position_valid /\ motor.position = position THEN w
        ELSE IF ~position_verify(position) THEN raise(w, "ValueError")
        ELSE move_wait(w2, m, wait)

\* Motor.move_to_coordinate
move_to_coordinate(w, m, coordinate_number, wait) ==
    IF coordinate_number < 0 \/ coordinate_number >= COORDINATE_COUNT
        THEN raise(w, "ValueError")
    ELSE move_wait(motor_move_to_coordinate(move_indicate(w, m, RAMP_MODE_POSITION),
                                            m, coordinate_number),
                   m, wait)

\* Motor.move_by: _distance_verify has the limits of _position_verify.
move_by(w, m, distance, wait) ==
    LET motor == w.motors[m]
        w1 == move_indicate(w, m, RAMP_MODE_POSITION)
        w2 == transceive(w1, MVP, MVP_TYPE_RELATIVE, m,
                         wide_times_sign(motor.direction_sign, distance))
    IN  IF distance = Int32(0) /\ ~motor.moving THEN w
        ELSE IF ~position_verify(distance) THEN raise(w, "ValueError")
        ELSE move_wait(w2, m, wait)

\* A stop that restarts the velocity detector from its second phase.
stop_second_phase(w, m, wait) ==
    LET w1 == [w EXCEPT !.motors[m].ramp_mode = RAMP_MODE_VELOCITY,
                        !.motors[m].moving_detect = "velocity_2"]
    IN  IF w.raised # "none" \/ ~w.motors[m].moving THEN w
        ELSE move_wait(transceive(w1, MST, 0, m, Int32(0)), m, wait)

\* Motor.stop
stop(w, m, wait) ==
    LET w1 == [w EXCEPT !.motors[m].ramp_mode = RAMP_MODE_VELOCITY,
                        !.motors[m].moving_detect = "velocity"]
    IN  IF w.raised # "none" \/ ~w.motors[m].moving THEN w
        ELSE move_wait(transceive(w1, MST, 0, m, Int32(0)), m, wait)

\* Module.Coordinates.__getitem__: the positions of the coordinate for the
\* motors from motor_number on, after the ones read.
RECURSIVE module_coordinates_get(_, _, _, _)
module_coordinates_get(w, number, motor_number, read) ==
    LET w1 == motor_coordinate_position_get(w, motor_number, number)
    IN  IF w.raised # "none" THEN w
        ELSE IF motor_number >= Cardinality(DOMAIN w.motors) THEN [w EXCEPT !.result = read]
        ELSE IF w1.raised # "none" THEN w1
        ELSE module_coordinates_get(w1, number, motor_number + 1, Append(read, w1.value))

module_coordinates_getitem(w, number) ==
    IF w.raised # "none" THEN w
    ELSE IF number < 0 \/ number >= COORDINATE_COUNT THEN raise(w, "IndexError")
    ELSE module_coordinates_get(w, number, 0, <<>>)

\* Module.Coordinates.__setitem__: the loop that verifies the positions
\* binds the name position to each of them, so that the loop that sets
\* them zips the motor numbers with the last position, an int, unless the
\* vector is empty.
module_coordinates_setitem(w, number, position) ==
    IF w.raised # "none" THEN w
    ELSE IF number < 0 \/ number >= COORDINATE_COUNT THEN raise(w, "IndexError")
    ELSE IF \E i \in DOMAIN position : ~position_verify(position[i])
        THEN raise(w, "ValueError")
    ELSE IF position # <<>> THEN raise(w, "TypeError")
    ELSE w

\* Motor.Coordinates.__setitem__
coordinates_setitem(w, m, number, position) ==
    IF w.raised # "none" THEN w
    ELSE IF number < 0 \/ number >= COORDINATE_COUNT THEN raise(w, "IndexError")
    ELSE IF ~position_verify(position) THEN raise(w, "ValueError")
    ELSE motor_coordinate_position_set(w, m, number,
                wide_times_sign(w.motors[m].direction_sign, position))

\* Motor.Coordinates._revert, from the coordinate number on.
RECURSIVE coordinates_revert(_, _, _)
coordinates_revert(w, m, number) ==
    LET w1 == motor_coordinate_position_get(w, m, number)
        w2 == IF w1.raised # "none" \/ w1.value = 0 THEN w1
              ELSE motor_coordinate_position_set(w1, m, number,
                        wide_times_sign(-1, Int32(w1.value)))
    IN  IF number >= COORDINATE_COUNT THEN w
        ELSE coordinates_revert(w2, m, number + 1)

\* A direction_reversed setter that leaves the switch handles as they are.
direction_reversed_setter_unswapped(w, m, direction_reversed) ==
    LET motor == w.motors[m]
        direction_sign == IF direction_reversed THEN -1 ELSE 1
        w1 == [w EXCEPT !.motors[m].position = wide_times_sign(-1, motor.position)]
        w2 == coordinates_revert(w1, m, 0)
    IN  IF direction_sign = motor.direction_sign THEN w
        ELSE IF w2.raised # "none" THEN w2
        ELSE [w2 EXCEPT !.motors[m].direction_sign = direction_sign]

\* Motor.direction_reversed (setter)
direction_reversed_setter(w, m, direction_reversed) ==
    LET motor == w.motors[m]
        direction_sign == IF direction_reversed THEN -1 ELSE 1
        w1 == [w EXCEPT !.motors[m].switch_limit_right = motor.switch_limit_left,
                        !.motors[m].switch_limit_left = motor.switch_limit_right,
                        !.motors[m].position = wide_times_sign(-1, motor.position)]
        w2 == coordinates_revert(w1, m, 0)
    IN  IF direction_sign = motor.direction_sign THEN w
        ELSE IF w2.raised # "none" THEN w2
        ELSE [w2 EXCEPT !.motors[m].direction_sign = direction_sign]

\* MotorUnion.__coordinate_set, from the i-th motor of the union on: an
\* exception of one assignment ends the loop.
RECURSIVE coordinate_set(_, _, _)
coordinate_set(w, i, position) ==
    IF i > Len(UnionMotors) \/ i > Len(position) THEN w
    ELSE LET w1 == coordinates_setitem(w, UnionMotors[i], UnionCoordinateNumber, position[i])
         IN  IF w1.raised # "none" THEN w1 ELSE coordinate_set(w1, i + 1, position)

\* a | b
RECURSIVE bit_or(_, _)
bit_or(a, b) ==
    IF a = 0 THEN b
    ELSE IF b = 0 THEN a
    ELSE (IF a % 2 = 1 \/ b % 2 = 1 THEN 1 ELSE 0) + 2 * bit_or(a \div 2, b \div 2)

\* MotorUnion.__motor_numbers: the motor numbers as a bit mask.
RECURSIVE motor_numbers_mask(_)
motor_numbers_mask(motor_numbers) ==
    IF motor_numbers = <<>> THEN 0
    ELSE bit_or(2 ^ Head(motor_numbers), motor_numbers_mask(Tail(motor_numbers)))

\* MotorUnion.__init__, as the exception it raises ("none": none); it
\* exchanges no frame.
union_init(motor_numbers, coordinate_number) ==
    LET RECURSIVE verified(_, _)
        verified(i, seen) ==
            IF i > Len(motor_numbers) THEN "none"
            ELSE IF motor_numbers[i] < 0 \/ motor_numbers[i] >= MOTOR_COUNT THEN "ValueError"
            ELSE IF motor_numbers[i] \in seen THEN "ValueError"
            ELSE verified(i + 1, seen \cup {motor_numbers[i]})
    IN  IF motor_numbers = <<>> THEN "ValueError"
        ELSE IF verified(1, {}) # "none" THEN verified(1, {})
        ELSE IF coordinate_number < 0 \/ coordinate_number >= COORDINATE_COUNT
            THEN "IndexError"
        ELSE "none"

\* for motor in self.__motors : motor._move_indicate(ramp_mode)
RECURSIVE union_move_indicate(_, _, _)
union_move_indicate(w, i, ramp_mode) ==
    IF i > Len(UnionMotors) THEN w
    ELSE union_move_indicate(move_indicate(w, UnionMotors[i], ramp_mode), i + 1, ramp_mode)

\* A MotorUnion.moving that asks the first motor of the union only.
union_moving_first(w, i) ==
    IF w.raised # "none" THEN w
    ELSE moving(w, UnionMotors[1])

\* MotorUnion.moving: any(motor.moving for motor in self.__motors) reads
\* the motors in order up to the first that is moving.
RECURSIVE union_moving(_, _)
union_moving(w, i) ==
    IF w.raised # "none" THEN w
    ELSE IF i > Len(UnionMotors) THEN [w EXCEPT !.result = FALSE]
    ELSE LET w1 == moving(w, UnionMotors[i])
         IN  IF w1.raised = "none" /\ w1.result = TRUE THEN w1 ELSE union_moving(w1, i + 1)

\* MotorUnion.wait_while_moving
RECURSIVE union_wait_while_moving(_)
union_wait_while_moving(w) ==
    LET w1 == union_moving(w, 1)
    IN  IF w1.raised = "none" /\ w1.result = TRUE /\ ~w1.starved
            THEN union_wait_while_moving(w1)
            ELSE w1

\* MotorUnion.position (setter), from the i-th motor of the union on: the
\* positions are zipped with the motors.
RECURSIVE union_position_set(_, _, _)
union_position_set(w, i, position) ==
    IF i > Len(UnionMotors) \/ i > Len(position) THEN w
    ELSE union_position_set(position_set(w, UnionMotors[i], position[i]), i + 1, position)

\* A MotorUnion.position setter that asks the first motor of the union
\* only whether it is moving.
union_position_setter_first(w, position) ==
    LET w1 == union_moving_first(w, 1)
    IN  IF w1.raised # "none" THEN w1
        ELSE IF w1.result THEN raise(w1, "StateException")
        ELSE IF \E i \in DOMAIN position : ~position_verify(position[i])
            THEN raise(w1, "ValueError")
        ELSE union_position_set(w1, 1, position)

\* MotorUnion.position (setter)
union_position_setter(w, position) ==
    LET w1 == union_moving(w, 1)
    IN  IF w1.raised # "none" THEN w1
        ELSE IF w1.result THEN raise(w1, "StateException")
        ELSE IF \E i \in DOMAIN position : ~position_verify(position[i])
            THEN raise(w1, "ValueError")
        ELSE union_position_set(w1, 1, position)

\* A MotorUnion.move_to that marks the motors as moving before it writes
\* the coordinates.
union_move_to_indicated_first(w, position, wait, synchronously) ==
    LET w1 == union_move_indicate(w, 1, RAMP_MODE_POSITION)
        w2 == coordinate_set(w1, 1, position)
        w3 == motor_move_to_coordinate(w2,
                  bit_or(motor_numbers_mask(UnionMotors),
                         IF synchronously THEN MOVE_SYNCHRONOUSLY
                         ELSE MOVE_ASYNCHRONOUSLY),
                  UnionCoordinateNumber)
    IN  IF w2.raised # "none" THEN w2
        ELSE IF wait THEN union_wait_while_moving(w3)
        ELSE w3

\* MotorUnion.move_to
union_move_to(w, position, wait, synchronously) ==
    LET w1 == coordinate_set(w, 1, position)
        w2 == union_move_indicate(w1, 1, RAMP_MODE_POSITION)
        w3 == motor_move_to_coordinate(w2,
                  bit_or(motor_numbers_mask(UnionMotors),
                         IF synchronously THEN MOVE_SYNCHRONOUSLY
                         ELSE MOVE_ASYNCHRONOUSLY),
                  UnionCoordinateNumber)
    IN  IF w1.raised # "none" THEN w1
        ELSE IF wait THEN union_wait_while_moving(w3)
        ELSE w3

\* Motor._pulse_divisor_exponent_set
pulse_divisor_exponent_set(w, m, value) ==
    LET motor == w.motors[m]
        w1 == axis_parameter_set(w, m, PARAMETER_PULSE_DIVISOR_EXPONENT, Int32(value))
    IN  IF w.raised # "none" THEN w
        ELSE IF motor.pulse_divisor_exponent_valid /\ motor.pulse_divisor_exponent = value
            THEN w
        ELSE IF w1.raised # "none" THEN w1
        ELSE [w1 EXCEPT !.motors[m].pulse_divisor_exponent = value,
                        !.motors[m].pulse_divisor_exponent_valid = TRUE,
                        !.motors[m].position_valid = FALSE]

\* Motor._ramp_divisor_exponent_set
ramp_divisor_exponent_set(w, m, value) ==
    LET motor == w.motors[m]
        w1 == axis_parameter_set(w, m, PARAMETER_RAMP_DIVISOR_EXPONENT, Int32(value))
    IN  IF w.raised # "none" THEN w
        ELSE IF motor.ramp_divisor_exponent_valid /\ motor.ramp_divisor_exponent = value
            THEN w
        ELSE IF w1.raised # "none" THEN w1
        ELSE [w1 EXCEPT !.motors[m].ramp_divisor_exponent = value,
                        !.motors[m].ramp_divisor_exponent_valid = TRUE]

\* Motor.__velocity_moving_set_external, with _velocity_moving_set_external
\* and _velocity_external of tmcm_3110: the exponents are cached since
\* __init__.
velocity_moving_set_external(w, m, value) ==
    LET motor == w.motors[m]
        internal == IF value.m = 0 THEN <<0, 0>>
                    ELSE velocity_internal(value, motor.microstep_resolution)
        w1 == pulse_divisor_exponent_set(w, m, internal[1])
        w2 == IF motor.velocity_moving_internal # internal[2]
                  THEN axis_parameter_set(w1, m, PARAMETER_VELOCITY_MOVING, Int32(internal[2]))
                  ELSE w1
    IN  IF w.raised # "none" THEN w
        ELSE IF w1.raised # "none" THEN w1
        ELSE IF w2.raised # "none" THEN w2
        ELSE [w2 EXCEPT !.motors[m].velocity_moving_internal = internal[2],
                        !.motors[m].velocity_moving =
                            velocity_external(w2.motors[m].pulse_divisor_exponent,
                                              internal[2], motor.microstep_resolution)]

\* Motor.__velocity_extrema_update
velocity_extrema_update(w, m) ==
    LET motor == w.motors[m]
        shift == bit_length(motor.microstep_resolution) - 1
        minimum == Float(FREQUENCY_MINIMUM.m, FREQUENCY_MINIMUM.x - shift)
        maximum == Float(FREQUENCY_MAXIMUM.m, FREQUENCY_MAXIMUM.x - shift)
        moving_ == IF float_less(motor.velocity_moving, minimum) THEN minimum
                   ELSE IF float_less(maximum, motor.velocity_moving) THEN maximum
                   ELSE motor.velocity_moving
    IN  IF w.raised # "none" THEN w
        ELSE velocity_moving_set_external(
                [w EXCEPT !.motors[m].velocity_minimum = minimum,
                          !.motors[m].velocity_maximum = maximum],
                m, moving_)

\* Motor.__acceleration_moving_set_external, with
\* _acceleration_moving_set_external and _acceleration_external of tmcm_3110.
acceleration_moving_set_external(w, m, value) ==
    LET motor == w.motors[m]
        internal == IF value.m = 0 THEN <<0, 0>>
                    ELSE acceleration_internal(motor.pulse_divisor_exponent, value,
                                               motor.microstep_resolution)
        w1 == ramp_divisor_exponent_set(w, m, internal[1])
        w2 == IF internal[2] # motor.acceleration_moving_internal
                  THEN axis_parameter_set(w1, m, PARAMETER_ACCELERATION_MOVING,
                                          Int32(internal[2]))
                  ELSE w1
    IN  IF w.raised # "none" THEN w
        ELSE IF w1.raised # "none" THEN w1
        ELSE IF w2.raised # "none" THEN w2
        ELSE [w2 EXCEPT !.motors[m].acceleration_moving_internal = internal[2],
                        !.motors[m].acceleration_moving =
                            acceleration_external(motor.pulse_divisor_exponent,
                                                  w2.motors[m].ramp_divisor_exponent,
                                                  internal[2], motor.microstep_resolution)]

\* An update of the acceleration extrema that leaves the moving
\* acceleration as it was.
acceleration_extrema_update_kept(w, m) ==
    LET motor == w.motors[m]
        pulse_divisor_exponent == motor.pulse_divisor_exponent
        minimum == acceleration_external(pulse_divisor_exponent,
                        min(RAMP_DIVISOR_EXPONENT_MAXIMUM, pulse_divisor_exponent + 1),
                        1, motor.microstep_resolution)
        maximum == acceleration_external(pulse_divisor_exponent,
                        max(0, pulse_divisor_exponent - 1),
                        ACCELERATION_PORTIONS - 1, motor.microstep_resolution)
    IN  IF w.raised # "none" THEN w
        ELSE [w EXCEPT !.motors[m].acceleration_minimum = minimum,
                       !.motors[m].acceleration_maximum = maximum]

\* Motor.__acceleration_extrema_update, with
\* _acceleration_extrema_get_external of tmcm_3110.
acceleration_extrema_update(w, m) ==
    LET motor == w.motors[m]
        pulse_divisor_exponent == motor.pulse_divisor_exponent
        minimum == acceleration_external(pulse_divisor_exponent,
                        min(RAMP_DIVISOR_EXPONENT_MAXIMUM, pulse_divisor_exponent + 1),
                        1, motor.microstep_resolution)
        maximum == acceleration_external(pulse_divisor_exponent,
                        max(0, pulse_divisor_exponent - 1),
                        ACCELERATION_PORTIONS - 1, motor.microstep_resolution)
        moving_ == IF float_less(motor.acceleration_moving, minimum) THEN minimum
                   ELSE IF float_less(maximum, motor.acceleration_moving) THEN maximum
                   ELSE motor.acceleration_moving
    IN  IF w.raised # "none" THEN w
        ELSE acceleration_moving_set_external(
                [w EXCEPT !.motors[m].acceleration_minimum = minimum,
                          !.motors[m].acceleration_maximum = maximum],
                m, moving_)

\* A velocity_moving setter that does not ask whether the motor is moving.
velocity_moving_setter_unguarded(w, m, value) ==
    LET motor == w.motors[m]
    IN  IF float_less(value, motor.velocity_minimum)
                \/ float_less(motor.velocity_maximum, value)
            THEN raise(w, "ValueError")
        ELSE IF value = motor.velocity_moving THEN w
        ELSE acceleration_extrema_update(velocity_moving_set_external(w, m, value), m)

\* Motor.velocity_moving (setter)
velocity_moving_setter(w, m, value) ==
    LET w1 == moving(w, m)
        motor == w1.motors[m]
    IN  IF w1.raised # "none" THEN w1
        ELSE IF w1.result THEN raise(w1, "StateException")
        ELSE IF float_less(value, motor.velocity_minimum)
                \/ float_less(motor.velocity_maximum, value)
            THEN raise(w1, "ValueError")
        ELSE IF value = motor.velocity_moving THEN w1
        ELSE acceleration_extrema_update(velocity_moving_set_external(w1, m, value), m)

\* Motor.acceleration_moving (setter)
acceleration_moving_setter(w, m, value) ==
    LET w1 == moving(w, m)
        motor == w1.motors[m]
    IN  IF w1.raised # "none" THEN w1
        ELSE IF w1.result THEN raise(w1, "StateException")
        ELSE IF float_less(value, motor.acceleration_minimum)
                \/ float_less(motor.acceleration_maximum, value)
            THEN raise(w1, "ValueError")
        ELSE IF value = motor.acceleration_moving THEN w1
        ELSE acceleration_moving_set_external(w1, m, value)

\* Motor.microstep_resolution (setter)
microstep_resolution_setter(w, m, value) ==
    LET w1 == moving(w, m)
        w2 == axis_parameter_set(w1, m, PARAMETER_MICROSTEP_RESOLUTION,
                                 Int32(bit_length(value) - 1))
    IN  IF w1.raised # "none" THEN w1
        ELSE IF w1.result THEN raise(w1, "StateException")
        ELSE IF value \notin MICROSTEP_RESOLUTIONS THEN raise(w1, "ValueError")
        ELSE IF value = w1.motors[m].microstep_resolution THEN w1
        ELSE IF w2.raised # "none" THEN w2
        ELSE acceleration_extrema_update(
                velocity_extrema_update(
                    [w2 EXCEPT !.motors[m].microstep_resolution = value], m), m)

\* Motor.current_moving (setter)
current_moving_setter(w, m, value) ==
    LET motor == w.motors[m]
        value_internal == motor_current_internal(value)
        w1 == axis_parameter_set(w, m, PARAMETER_CURRENT_MOVING, Int32(value_internal))
    IN  IF value < MOTOR_CURRENT_MINIMUM \/ value > MOTOR_CURRENT_MAXIMUM
            THEN raise(w, "ValueError")
        ELSE IF value_internal = motor.current_moving_internal THEN w
        ELSE IF w1.raised # "none" THEN w1
        ELSE [w1 EXCEPT !.motors[m].current_moving_internal = value_internal,
                        !.motors[m].current_moving = motor_current_external(value_internal)]

\* The parameters the device holds when a Motor is constructed.
Held(microstep_resolution, pulse_divisor_exponent, ramp_divisor_exponent, velocity_moving, acceleration_moving, current_moving) ==
    [microstep_resolution |-> microstep_resolution,
     pulse_divisor_exponent |-> pulse_divisor_exponent,
     ramp_divisor_exponent |-> ramp_divisor_exponent,
     velocity_moving |-> velocity_moving,
     acceleration_moving |-> acceleration_moving,
     current_moving |-> current_moving]

HeldDefault == Held(0, 3, 7, 1000, 500, 128)
HeldInputs ==
    {Held(exponent, 3, 7, 1000, 500, 128) : exponent \in 0 .. 8}
        \cup {Held(8, 13, 13, 0, 0, 0), Held(4, 0, 0, 2047, 2047, 255)}

\* An axis of the device at position 0 in the given ramp mode, with the
\* given parameters.
DeviceAxis(ramp_mode, held) ==
    [position_actual |-> 0,
     position_target |-> 0,
     parameters |->
        [parameter \in DeviceParameters |->
            CASE parameter = PARAMETER_RAMP_MODE -> ramp_mode
              [] parameter = PARAMETER_MICROSTEP_RESOLUTION -> held.microstep_resolution
              [] parameter = PARAMETER_PULSE_DIVISOR_EXPONENT -> held.pulse_divisor_exponent
              [] parameter = PARAMETER_RAMP_DIVISOR_EXPONENT -> held.ramp_divisor_exponent
              [] parameter = PARAMETER_VELOCITY_MOVING -> held.velocity_moving
              [] parameter = PARAMETER_ACCELERATION_MOVING -> held.acceleration_moving
              [] OTHER -> held.current_moving]]

\* Module.factory_settings_restore: the request is transmitted and no reply
\* is read; the device takes its factory settings, here the default
\* parameters in the position ramp mode with every coordinate 0.  The
\* motors are left as they are.
factory_settings_restore(w) ==
    LET frame == [command |-> CTL_FACTORY_SETTINGS_RESTORE, type_number |-> 0,
                  bank_number |-> 0, value |-> CTL_FACTORY_SETTINGS_RESTORE_VALUE]
    IN  IF w.raised # "none" THEN w
        ELSE [w EXCEPT !.frames = Append(@, frame),
                       !.device_axes =
                            [m \in DOMAIN w.device_axes |->
                                DeviceAxis(RAMP_MODE_POSITION, HeldDefault)],
                       !.device_coordinates =
                            [n \in DOMAIN w.device_coordinates |->
                                [m \in DOMAIN w.device_coordinates[n] |-> 0]]]

\* A Motor and the axis of its device after __init__ on a device that
\* holds the given parameters:
\* it reads them, updates the extrema and ends with
\* _move_indicate(self._ramp_mode_get()), where ramp_mode is the value
\* _ramp_mode_get returns.
MotorConstructedWith(ramp_mode, held) ==
    LET read ==
            [ramp_mode |-> 0,
             moving |-> FALSE,
             moving_detect |-> "false",
             position_valid |-> FALSE,
             position |-> Int32(0),
             direction_sign |-> 1,
             switch_limit_right |-> "LIMIT_RIGHT",
             switch_limit_left |-> "LIMIT_LEFT",
             current_moving_internal |-> held.current_moving,
             current_moving |-> motor_current_external(held.current_moving),
             microstep_resolution |-> 2 ^ held.microstep_resolution,
             pulse_divisor_exponent_valid |-> TRUE,
             pulse_divisor_exponent |-> held.pulse_divisor_exponent,
             ramp_divisor_exponent_valid |-> TRUE,
             ramp_divisor_exponent |-> held.ramp_divisor_exponent,
             velocity_moving_internal |-> held.velocity_moving,
             velocity_moving |->
                velocity_external(held.pulse_divisor_exponent, held.velocity_moving,
                                  2 ^ held.microstep_resolution),
             velocity_minimum |-> Float(0, 0),
             velocity_maximum |-> Float(0, 0),
             acceleration_moving_internal |-> held.acceleration_moving,
             acceleration_moving |->
                acceleration_external(held.pulse_divisor_exponent,
                                      held.ramp_divisor_exponent,
                                      held.acceleration_moving,
                                      2 ^ held.microstep_resolution),
             acceleration_minimum |-> Float(0, 0),
             acceleration_maximum |-> Float(0, 0)]
        w == WorldOf([m \in {0} |-> read], <<>>,
                     [m \in {0} |-> DeviceAxis(ramp_mode, held)], <<>>, 0)
    IN  move_indicate(acceleration_extrema_update(velocity_extrema_update(w, 0), 0),
                      0, ramp_mode)

\* The motors after the construction of the module, for the values the
\* device returns to _ramp_mode_get and the parameters it holds.
MotorsConstructedWith(ramp_modes, held) ==
    /\ motors = [m \in DOMAIN ramp_modes |->
                        MotorConstructedWith(ramp_modes[m], held).motors[0]]
    /\ device_coordinates = [n \in CoordinateNumbers |-> [m \in DOMAIN ramp_modes |-> 0]]
    /\ device_axes = [m \in DOMAIN ramp_modes |->
                            MotorConstructedWith(ramp_modes[m], held).device_axes[0]]
    /\ motor_call = MotorCallIdle

\* The motors of a module constructed on a device whose axes are in one of
\* the position ramp modes.
MotorsConstructed ==
    \E ramp_modes \in [Motors -> {RAMP_MODE_POSITION, RAMP_MODE_POSITION_SOFT}] :
        MotorsConstructedWith(ramp_modes, HeldDefault)

\* The motors where the specifications of the codec and of the threads
\* leave them.
MotorsAside == MotorsConstructedWith([m \in Motors |-> RAMP_MODE_POSITION], HeldDefault)

(***************************************************************************)
(* SpecCodec: identify, construct and the port transceive, one caller.     *)
(***************************************************************************)
CallIdle ==
    [ op |-> "none", phase |-> "idle", address |-> 0, command |-> 0,
      type_number |-> 0, bank_number |-> 0, value |-> 0, model_number |-> 0,
      tx |-> 0, rx |-> 0, raised |-> "none", returned |-> 0 ]

\* __command_request_transmit_port: the frame goes to the port.
command_request_transmit_port(name, address_, command, type_number, bank_number, value, model_number) ==
    /\ port_tx' = command_request_frame(address_, command, type_number, bank_number, value)
    /\ port_rx' = <<>>
    /\ call' = [ CallIdle EXCEPT !.op = name, !.phase = "await", !.address = address_,
                 !.command = command, !.type_number = type_number,
                 !.bank_number = bank_number, !.value = value,
                 !.model_number = model_number, !.tx = 1 ]
    /\ UNCHANGED <<module_vars, thread_vars, wire_vars, motor_vars>>

\* The call raises before the port is used.
call_rejected(name, address_, model_number) ==
    /\ call' = [ CallIdle EXCEPT !.op = name, !.phase = "done", !.address = address_,
                 !.model_number = model_number, !.raised = "ValueError" ]
    /\ UNCHANGED <<port_tx, port_rx>>
    /\ UNCHANGED <<module_vars, thread_vars, wire_vars, motor_vars>>

\* __firmware_version_get up to the transmission of its request.
firmware_version_get(name, address_, model_number) ==
    command_request_transmit_port(name, address_, CTL_FIRMWARE_VERSION_GET,
        CTL_FIRMWARE_VERSION_GET_TYPE_BINARY, 0, 0, model_number)

\* Module.identify(port, address) up to the transmission of its request.
identify(address_) ==
    /\ call.phase = "idle"
    /\ IF address_verify(address_)
         THEN firmware_version_get("identify", address_, MODEL_NUMBER_IGNORE)
         ELSE call_rejected("identify", address_, MODEL_NUMBER_IGNORE)

\* Module.construct(port, address, model_number), which starts with identify.
construct(address_, model_number) ==
    /\ call.phase = "idle"
    /\ IF address_verify(address_)
         THEN firmware_version_get("construct", address_, model_number)
         ELSE call_rejected("construct", address_, model_number)

\* __command_transceive_port for a command of a module at a valid address,
\* up to the transmission of its request.
command_transceive_port(address_, command, type_number, bank_number, value) ==
    /\ call.phase = "idle"
    /\ command_request_transmit_port("transceive", address_, command, type_number,
                                     bank_number, value, MODEL_NUMBER_IGNORE)

\* What construct does with the identification: ModelException on another
\* model than the expected one, NotImplementedError when no implementation
\* of the model is found (implemented: whether the lookup finds one).
construct_dispatch(reply, model_number, implemented) ==
    LET model_number_port == firmware_version_decode(reply.value).model_number
    IN  IF reply.raised # "none" THEN reply
        ELSE IF model_number # MODEL_NUMBER_IGNORE /\ model_number # model_number_port
            THEN Raise("ModelException")
        ELSE IF ~implemented THEN Raise("NotImplementedError")
        ELSE Return(model_number_port)

\* __command_reply_receive_port: the 9 bytes of the reply are read and
\* checked, and the call ends.
command_reply_receive(data, implemented) ==
    /\ call.phase = "await"
    /\ LET reply  == command_reply_receive_port(data, call.address, call.command)
           result == IF call.op = "construct"
                        THEN construct_dispatch(reply, call.model_number, implemented)
                        ELSE reply
       IN  /\ port_rx' = data
           /\ call' = [ call EXCEPT !.phase = "done", !.rx = @ + 1,
                        !.raised = result.raised, !.returned = result.value ]
    /\ UNCHANGED port_tx
    /\ UNCHANGED <<module_vars, thread_vars, wire_vars, motor_vars>>

\* The caller takes the outcome; the port is ready for the next call.
call_return ==
    /\ call.phase = "done"
    /\ call' = CallIdle
    /\ port_tx' = <<>>
    /\ port_rx' = <<>>
    /\ UNCHANGED <<module_vars, thread_vars, wire_vars, motor_vars>>

\* The port is idle and no classmethod call is in progress.
CodecIdle ==
    /\ port_tx = <<>>
    /\ port_rx = <<>>
    /\ call = CallIdle

CodecInit ==
    /\ CodecIdle
    /\ ModuleConstructed
    /\ MotorsAside
    /\ MotorsAside

CodecIdentify == call.phase = "idle" /\ \E a \in AddressInputs : identify(a)

CodecConstruct ==
    /\ call.phase = "idle"
    /\ \E a \in AddressInputs, m \in ModelNumberInputs : construct(a, m)

CodecTransceive ==
    /\ call.phase = "idle"
    /\ \E a \in {a \in AddressInputs : address_verify(a)}, c \in CommandInputs,
       t \in TypeInputs, b \in BankInputs, v \in ValueInputs :
        command_transceive_port(a, c, t, b, v)

CodecReceive ==
    /\ call.phase = "await"
    /\ \E data \in ReplyFrames(call.address, call.command, ReplyValues),
       implemented \in BOOLEAN :
        command_reply_receive(data, implemented)

CodecNext ==
    \/ CodecIdentify
    \/ CodecConstruct
    \/ CodecTransceive
    \/ CodecReceive
    \/ call_return

SpecCodec == CodecInit /\ [][CodecNext]_vars


(***************************************************************************)
(* Spec: the threads of one constructed module.  A step is one access to   *)
(* state another thread can see: the port lock, the port, the heartbeat    *)
(* event, thread and event timeout.                                        *)
(***************************************************************************)
\* The request a thread's transceive sends.
command_of(t) ==
    CASE op[t] = "heartbeat_timeout" -> SGP
      [] op[t] = "heartbeat" -> CTL_APPLICATION_STATUS_GET
      [] op[t] = "factory_settings_restore" -> CTL_FACTORY_SETTINGS_RESTORE
      [] OTHER -> GAP

\* Bookkeeping of the port: a request frame of the given kind is
\* transmitted by thread t.
wire_transmit(t, kind) ==
    LET unanswered == wire_last # "none" /\ wire_reads # 1
    IN  /\ wire_fault' = IF unanswered /\ wire_last = "command" THEN "command"
                         ELSE IF unanswered /\ wire_fault = "none" THEN wire_last
                         ELSE wire_fault
        /\ wire_interleaved' =
              (wire_interleaved \/ \E u \in Threads \ {t} : pc[u] = "receive")
        /\ wire_last' = kind
        /\ wire_reads' = 0

\* Bookkeeping of the port: a reply of 9 bytes is read.
wire_receive ==
    /\ wire_reads' = IF wire_reads < 2 THEN wire_reads + 1 ELSE wire_reads
    /\ UNCHANGED <<wire_last, wire_fault, wire_interleaved>>

\* Where a thread goes when its operation ends: a caller has its outcome
\* to look at, the heartbeat thread is dead after an exception.
ended(t, exception) ==
    IF t = HeartbeatThread
        THEN IF exception = "none" THEN "exited" ELSE "dead"
        ELSE "done"

\* A public operation of a caller begins: a command of the module or of
\* one of its motors that is one __command_transceive.
command_begin(t) ==
    /\ pc[t] = "idle"
    /\ pc' = [pc EXCEPT ![t] = "acquire"]
    /\ op' = [op EXCEPT ![t] = "command"]
    /\ UNCHANGED <<arg, raised, tx_count, rx_count>>
    /\ UNCHANGED <<codec_vars, motor_vars, module_vars, wire_vars>>

\* The lock is taken whether it is held or not.
port_lock_acquire_unguarded(t) ==
    /\ pc[t] \in {"acquire", "restore_acquire"}
    /\ port_lock' = t
    /\ pc' = [pc EXCEPT ![t] = IF pc[t] = "acquire" THEN "transmit" ELSE "restore_transmit"]
    /\ UNCHANGED <<address, heartbeat_thread, heartbeat_event,
                   heartbeat_event_timeout, heartbeat_timeout>>
    /\ UNCHANGED <<op, arg, raised, tx_count, rx_count>>
    /\ UNCHANGED <<codec_vars, motor_vars, wire_vars>>

\* with self.__port_lock: the thread blocks until the lock is free.
port_lock_acquire(t) ==
    /\ pc[t] \in {"acquire", "restore_acquire"}
    /\ port_lock = "free"
    /\ port_lock' = t
    /\ pc' = [pc EXCEPT ![t] = IF pc[t] = "acquire" THEN "transmit" ELSE "restore_transmit"]
    /\ UNCHANGED <<address, heartbeat_thread, heartbeat_event,
                   heartbeat_event_timeout, heartbeat_timeout>>
    /\ UNCHANGED <<op, arg, raised, tx_count, rx_count>>
    /\ UNCHANGED <<codec_vars, motor_vars, wire_vars>>

\* __command_transceive_port, first half: the request frame is transmitted.
command_transceive_transmit(t) ==
    /\ pc[t] = "transmit"
    /\ wire_transmit(t, "command")
    /\ tx_count' = [tx_count EXCEPT ![t] = @ + 1]
    /\ pc' = [pc EXCEPT ![t] = "receive"]
    /\ UNCHANGED <<op, arg, raised, rx_count>>
    /\ UNCHANGED <<codec_vars, motor_vars, module_vars>>

\* The outcome of reading the reply data of thread t's request.
command_transceive_reply(t, data) ==
    command_reply_receive_port(data, address, command_of(t))

\* A transceive that transmits its request again after a checksum error.
command_transceive_receive_retry(t, data) ==
    LET reply == command_transceive_reply(t, data)
        retry == reply.raised \in {"ChecksumReplyException", "ChecksumRequestException"}
                 /\ tx_count[t] < 2
    IN  /\ pc[t] = "receive"
        /\ wire_receive
        /\ rx_count' = [rx_count EXCEPT ![t] = @ + 1]
        /\ port_lock' = IF retry THEN port_lock ELSE "free"
        /\ raised' = [raised EXCEPT ![t] = IF retry THEN "none" ELSE reply.raised]
        /\ pc' = [pc EXCEPT ![t] = IF retry THEN "transmit"
                                   ELSE IF reply.raised = "none" THEN "event_check"
                                   ELSE ended(t, reply.raised)]
        /\ UNCHANGED <<address, heartbeat_thread, heartbeat_event,
                       heartbeat_event_timeout, heartbeat_timeout>>
        /\ UNCHANGED <<op, arg, tx_count>>
        /\ UNCHANGED <<codec_vars, motor_vars>>

\* A transceive that leaves the lock without reading the reply.
command_transceive_receive_skipped(t, data) ==
    /\ pc[t] = "receive"
    /\ port_lock' = "free"
    /\ pc' = [pc EXCEPT ![t] = "event_check"]
    /\ UNCHANGED <<address, heartbeat_thread, heartbeat_event,
                   heartbeat_event_timeout, heartbeat_timeout>>
    /\ UNCHANGED <<op, arg, raised, tx_count, rx_count>>
    /\ UNCHANGED <<codec_vars, motor_vars, wire_vars>>

\* __command_transceive_port, second half, and the end of the with block:
\* the 9 bytes of the reply are read and checked, the lock is released, and
\* an exception of the check leaves __command_transceive.
command_transceive_receive(t, data) ==
    LET reply == command_transceive_reply(t, data)
    IN  /\ pc[t] = "receive"
        /\ wire_receive
        /\ rx_count' = [rx_count EXCEPT ![t] = @ + 1]
        /\ port_lock' = "free"
        /\ raised' = [raised EXCEPT ![t] = reply.raised]
        /\ pc' = [pc EXCEPT ![t] = IF reply.raised = "none" THEN "event_check"
                                   ELSE ended(t, reply.raised)]
        /\ UNCHANGED <<address, heartbeat_thread, heartbeat_event,
                       heartbeat_event_timeout, heartbeat_timeout>>
        /\ UNCHANGED <<op, arg, tx_count>>
        /\ UNCHANGED <<codec_vars, motor_vars>>

\* Where a thread continues after its __command_transceive has returned.
transceived(t) ==
    CASE op[t] = "heartbeat_timeout" -> "setup"
      [] op[t] = "heartbeat" -> "loop"
      [] OTHER -> "done"

\* __command_transceive: if self.__heartbeat_event is not None
command_transceive_event_check(t) ==
    /\ pc[t] = "event_check"
    /\ pc' = [pc EXCEPT ![t] = IF heartbeat_event # "none" THEN "event_set"
                               ELSE transceived(t)]
    /\ UNCHANGED <<op, arg, raised, tx_count, rx_count>>
    /\ UNCHANGED <<codec_vars, motor_vars, module_vars, wire_vars>>

\* __command_transceive: self.__heartbeat_event.set(), an AttributeError
\* when the attribute has become None since the check.
command_transceive_event_set(t) ==
    /\ pc[t] = "event_set"
    /\ IF heartbeat_event = "none"
         THEN /\ raised' = [raised EXCEPT ![t] = "AttributeError"]
              /\ pc' = [pc EXCEPT ![t] = ended(t, "AttributeError")]
              /\ UNCHANGED heartbeat_event
         ELSE /\ heartbeat_event' = "set"
              /\ pc' = [pc EXCEPT ![t] = transceived(t)]
              /\ UNCHANGED raised
    /\ UNCHANGED <<address, port_lock, heartbeat_thread,
                   heartbeat_event_timeout, heartbeat_timeout>>
    /\ UNCHANGED <<op, arg, tx_count, rx_count>>
    /\ UNCHANGED <<codec_vars, motor_vars, wire_vars>>

\* factory_settings_restore: __command_request_transmit is entered.
factory_settings_restore_begin(t) ==
    /\ pc[t] = "idle"
    /\ pc' = [pc EXCEPT ![t] = "restore_acquire"]
    /\ op' = [op EXCEPT ![t] = "factory_settings_restore"]
    /\ UNCHANGED <<arg, raised, tx_count, rx_count>>
    /\ UNCHANGED <<codec_vars, motor_vars, module_vars, wire_vars>>

\* __command_request_transmit under the lock: the request frame is
\* transmitted, no reply is read, the lock is released.
factory_settings_restore_transmit(t) ==
    /\ pc[t] = "restore_transmit"
    /\ wire_transmit(t, "restore")
    /\ tx_count' = [tx_count EXCEPT ![t] = @ + 1]
    /\ port_lock' = "free"
    /\ pc' = [pc EXCEPT ![t] = "done"]
    /\ UNCHANGED <<address, heartbeat_thread, heartbeat_event,
                   heartbeat_event_timeout, heartbeat_timeout>>
    /\ UNCHANGED <<op, arg, raised, rx_count>>
    /\ UNCHANGED <<codec_vars, motor_vars>>

\* The caller takes the outcome of its operation.
operation_return(t) ==
    /\ pc[t] = "done"
    /\ pc' = [pc EXCEPT ![t] = "idle"]
    /\ op' = [op EXCEPT ![t] = "none"]
    /\ arg' = [arg EXCEPT ![t] = 0]
    /\ raised' = [raised EXCEPT ![t] = "none"]
    /\ tx_count' = [tx_count EXCEPT ![t] = 0]
    /\ rx_count' = [rx_count EXCEPT ![t] = 0]
    /\ UNCHANGED <<codec_vars, motor_vars, module_vars, wire_vars>>

\* heartbeat_timeout setter, up to its first exchange: an equal value
\* returns, a value out of range raises ValueError, any other value is
\* written to the device with __parameter_set (SGP).
heartbeat_timeout_set_begin(t, value) ==
    /\ pc[t] = "idle"
    /\ op' = [op EXCEPT ![t] = "heartbeat_timeout"]
    /\ arg' = [arg EXCEPT ![t] = value]
    /\ IF value = heartbeat_timeout
         THEN /\ pc' = [pc EXCEPT ![t] = "done"]
              /\ UNCHANGED raised
         ELSE IF value < 0 \/ value > HEARTBEAT_TIMEOUT_LIMIT
         THEN /\ pc' = [pc EXCEPT ![t] = "done"]
              /\ raised' = [raised EXCEPT ![t] = "ValueError"]
         ELSE /\ pc' = [pc EXCEPT ![t] = "acquire"]
              /\ UNCHANGED raised
    /\ UNCHANGED <<tx_count, rx_count>>
    /\ UNCHANGED <<codec_vars, motor_vars, module_vars, wire_vars>>

\* __heartbeat_setup(timeout_seconds), to its branch: the event timeout
\* becomes timeout_seconds / 2 (the timeout in ms, counted in 0.5 ms).
heartbeat_setup(t) ==
    LET activate == arg[t] # 0
        active   == heartbeat_thread # "none"
    IN  /\ pc[t] = "setup"
        /\ heartbeat_event_timeout' = arg[t]
        /\ pc' = [pc EXCEPT ![t] =
              IF activate = active
                  THEN IF activate THEN "setup_set" ELSE "assign"
                  ELSE IF activate THEN "setup_create" ELSE "setup_stop"]
        /\ UNCHANGED <<address, port_lock, heartbeat_thread, heartbeat_event,
                       heartbeat_timeout>>
        /\ UNCHANGED <<op, arg, raised, tx_count, rx_count>>
        /\ UNCHANGED <<codec_vars, motor_vars, wire_vars>>

\* __heartbeat_setup, the thread stays: the event is set so that the
\* thread waits with the new timeout.
heartbeat_setup_set(t) ==
    /\ pc[t] = "setup_set"
    /\ heartbeat_event' = "set"
    /\ pc' = [pc EXCEPT ![t] = "assign"]
    /\ UNCHANGED <<address, port_lock, heartbeat_thread,
                   heartbeat_event_timeout, heartbeat_timeout>>
    /\ UNCHANGED <<op, arg, raised, tx_count, rx_count>>
    /\ UNCHANGED <<codec_vars, motor_vars, wire_vars>>

\* __heartbeat_setup, activation: the thread and its event are created.
heartbeat_setup_create(t) ==
    /\ pc[t] = "setup_create"
    /\ heartbeat_thread' = "thread"
    /\ heartbeat_event' = "clear"
    /\ pc' = [pc EXCEPT ![t] = "setup_start"]
    /\ UNCHANGED <<address, port_lock, heartbeat_event_timeout, heartbeat_timeout>>
    /\ UNCHANGED <<op, arg, raised, tx_count, rx_count>>
    /\ UNCHANGED <<codec_vars, motor_vars, wire_vars>>

\* __heartbeat_setup, activation: the thread is started.
heartbeat_setup_start(t) ==
    /\ pc[t] = "setup_start"
    /\ pc' = [pc EXCEPT ![t] = "assign", ![HeartbeatThread] = "loop"]
    /\ op' = [op EXCEPT ![HeartbeatThread] = "heartbeat"]
    /\ raised' = [raised EXCEPT ![HeartbeatThread] = "none"]
    /\ UNCHANGED <<arg, tx_count, rx_count>>
    /\ UNCHANGED <<codec_vars, motor_vars, module_vars, wire_vars>>

\* __heartbeat_setup, deactivation: the event is set to wake the thread.
heartbeat_setup_stop(t) ==
    /\ pc[t] = "setup_stop"
    /\ heartbeat_event' = "set"
    /\ pc' = [pc EXCEPT ![t] = "setup_join"]
    /\ UNCHANGED <<address, port_lock, heartbeat_thread,
                   heartbeat_event_timeout, heartbeat_timeout>>
    /\ UNCHANGED <<op, arg, raised, tx_count, rx_count>>
    /\ UNCHANGED <<codec_vars, motor_vars, wire_vars>>

\* The heartbeat thread has ended: its function has returned or an
\* exception has left it.
heartbeat_ended == pc[HeartbeatThread] \in {"exited", "dead"}

\* A join that does not wait for the thread to end.
heartbeat_setup_join_nowait(t) ==
    /\ pc[t] = "setup_join"
    /\ heartbeat_event' = "none"
    /\ heartbeat_thread' = "none"
    /\ pc' = [pc EXCEPT ![t] = "assign"]
    /\ UNCHANGED <<address, port_lock, heartbeat_event_timeout, heartbeat_timeout>>
    /\ UNCHANGED <<op, arg, raised, tx_count, rx_count>>
    /\ UNCHANGED <<codec_vars, motor_vars, wire_vars>>

\* __heartbeat_setup, deactivation: join() returns once the thread has
\* ended; the event and the thread are forgotten.
heartbeat_setup_join(t) ==
    /\ pc[t] = "setup_join"
    /\ heartbeat_ended
    /\ heartbeat_event' = "none"
    /\ heartbeat_thread' = "none"
    /\ pc' = [pc EXCEPT ![t] = "assign", ![HeartbeatThread] = "none"]
    /\ op' = [op EXCEPT ![HeartbeatThread] = "none"]
    /\ raised' = [raised EXCEPT ![HeartbeatThread] = "none"]
    /\ tx_count' = [tx_count EXCEPT ![HeartbeatThread] = 0]
    /\ rx_count' = [rx_count EXCEPT ![HeartbeatThread] = 0]
    /\ UNCHANGED <<address, port_lock, heartbeat_event_timeout, heartbeat_timeout>>
    /\ UNCHANGED arg
    /\ UNCHANGED <<codec_vars, motor_vars, wire_vars>>

\* heartbeat_timeout setter, last statement: the value is remembered.
heartbeat_timeout_set_assign(t) ==
    /\ pc[t] = "assign"
    /\ heartbeat_timeout' = arg[t]
    /\ pc' = [pc EXCEPT ![t] = "done"]
    /\ UNCHANGED <<address, port_lock, heartbeat_thread, heartbeat_event,
                   heartbeat_event_timeout>>
    /\ UNCHANGED <<op, arg, raised, tx_count, rx_count>>
    /\ UNCHANGED <<codec_vars, motor_vars, wire_vars>>

\* __heartbeat: while self.__heartbeat_event_timeout != 0.0
heartbeat_loop ==
    /\ pc[HeartbeatThread] = "loop"
    /\ pc' = [pc EXCEPT ![HeartbeatThread] =
                 IF heartbeat_event_timeout # 0 THEN "wait" ELSE "exited"]
    /\ tx_count' = [tx_count EXCEPT ![HeartbeatThread] = 0]
    /\ rx_count' = [rx_count EXCEPT ![HeartbeatThread] = 0]
    /\ UNCHANGED <<op, arg, raised>>
    /\ UNCHANGED <<codec_vars, motor_vars, module_vars, wire_vars>>

\* __heartbeat: self.__heartbeat_event.wait(timeout) returns True at once
\* when the event is set, and False when the timeout has passed without.
heartbeat_wait ==
    /\ pc[HeartbeatThread] = "wait"
    /\ pc' = [pc EXCEPT ![HeartbeatThread] =
                 IF heartbeat_event = "set" THEN "clear" ELSE "acquire"]
    /\ UNCHANGED <<op, arg, raised, tx_count, rx_count>>
    /\ UNCHANGED <<codec_vars, motor_vars, module_vars, wire_vars>>

\* __heartbeat: self.__heartbeat_event.clear()
heartbeat_clear ==
    /\ pc[HeartbeatThread] = "clear"
    /\ heartbeat_event' = "clear"
    /\ pc' = [pc EXCEPT ![HeartbeatThread] = "loop"]
    /\ UNCHANGED <<address, port_lock, heartbeat_thread,
                   heartbeat_event_timeout, heartbeat_timeout>>
    /\ UNCHANGED <<op, arg, raised, tx_count, rx_count>>
    /\ UNCHANGED <<codec_vars, motor_vars, wire_vars>>

(***************************************************************************)
(* The specification of the threads.                                       *)
(***************************************************************************)
\* Replies to a request of thread t: the reply of the module, and replies
\* with one byte off (the checksum, the address, the status, the command);
\* the value does not matter here.
Replies(t) ==
    { reply_frame(address, s, command_of(t), 0, 0) : s \in StatusInputs }
    \cup { reply_frame(address, SUCCESS, command_of(t), 0, 1),
           reply_frame(address_other(address), SUCCESS, command_of(t), 0, 0),
           reply_frame(address, SUCCESS, command_other(command_of(t)), 0, 0) }

Init ==
    /\ CodecIdle
    /\ ModuleConstructed
    /\ MotorsAside

CommandBegin == \E t \in Callers : command_begin(t)

FactorySettingsRestoreBegin == \E t \in Callers : factory_settings_restore_begin(t)

HeartbeatTimeoutSetBegin ==
    \E t \in Configurers, value \in HeartbeatTimeoutInputs :
        heartbeat_timeout_set_begin(t, value)

PortLockAcquire == \E t \in Threads : port_lock_acquire(t)

CommandTransceiveTransmit == \E t \in Threads : command_transceive_transmit(t)

CommandTransceiveReceive ==
    \E t \in Threads :
        /\ pc[t] = "receive"
        /\ \E data \in Replies(t) : command_transceive_receive(t, data)

CommandTransceiveEventCheck == \E t \in Threads : command_transceive_event_check(t)

CommandTransceiveEventSet == \E t \in Threads : command_transceive_event_set(t)

FactorySettingsRestoreTransmit ==
    \E t \in Callers : factory_settings_restore_transmit(t)

HeartbeatSetup == \E t \in Callers : heartbeat_setup(t)

HeartbeatSetupSet == \E t \in Callers : heartbeat_setup_set(t)

HeartbeatSetupCreate == \E t \in Callers : heartbeat_setup_create(t)

HeartbeatSetupStart == \E t \in Callers : heartbeat_setup_start(t)

HeartbeatSetupStop == \E t \in Callers : heartbeat_setup_stop(t)

HeartbeatSetupJoin == \E t \in Callers : heartbeat_setup_join(t)

HeartbeatTimeoutSetAssign == \E t \in Callers : heartbeat_timeout_set_assign(t)

OperationReturn == \E t \in Callers : operation_return(t)

\* The steps of a caller that has begun an operation, and of the heartbeat
\* thread: the scheduler runs every thread that can take a step.
ThreadStep(t) ==
    \/ port_lock_acquire(t)
    \/ command_transceive_transmit(t)
    \/ (pc[t] = "receive" /\ \E data \in Replies(t) : command_transceive_receive(t, data))
    \/ command_transceive_event_check(t)
    \/ command_transceive_event_set(t)
    \/ (t \in Callers /\ factory_settings_restore_transmit(t))
    \/ (t \in Callers /\ heartbeat_setup(t))
    \/ (t \in Callers /\ heartbeat_setup_set(t))
    \/ (t \in Callers /\ heartbeat_setup_create(t))
    \/ (t \in Callers /\ heartbeat_setup_start(t))
    \/ (t \in Callers /\ heartbeat_setup_stop(t))
    \/ (t \in Callers /\ heartbeat_setup_join(t))
    \/ (t \in Callers /\ heartbeat_timeout_set_assign(t))
    \/ (t = HeartbeatThread /\ heartbeat_loop)
    \/ (t = HeartbeatThread /\ heartbeat_wait)
    \/ (t = HeartbeatThread /\ heartbeat_clear)

Next ==
    \/ CommandBegin
    \/ FactorySettingsRestoreBegin
    \/ HeartbeatTimeoutSetBegin
    \/ PortLockAcquire
    \/ CommandTransceiveTransmit
    \/ CommandTransceiveReceive
    \/ CommandTransceiveEventCheck
    \/ CommandTransceiveEventSet
    \/ FactorySettingsRestoreTransmit
    \/ HeartbeatSetup
    \/ HeartbeatSetupSet
    \/ HeartbeatSetupCreate
    \/ HeartbeatSetupStart
    \/ HeartbeatSetupStop
    \/ HeartbeatSetupJoin
    \/ HeartbeatTimeoutSetAssign
    \/ heartbeat_loop
    \/ heartbeat_wait
    \/ heartbeat_clear
    \/ OperationReturn

Spec == Init /\ [][Next]_vars

\* Every thread that can take a step eventually takes one: the operating
\* system schedules each runnable thread, the port answers each request,
\* and a timed wait ends; a thread that waits for the lock gets it when
\* the lock is released again and again, which is why the fairness is
\* strong.  A caller is not obliged to begin an operation.
FairSpec ==
    /\ Spec
    /\ \A t \in Threads : SF_vars(ThreadStep(t))

(***************************************************************************)
(* The specifications of the motors: one handler per step.                 *)
(***************************************************************************)
\* The handler called has run in the world w: the device has answered each
\* of its reads, and a handler that waits has seen the motor at rest.
handled(name, motor, arguments, w) ==
    /\ ~w.starved
    /\ motors' = w.motors
    /\ device_coordinates' = w.device_coordinates
    /\ device_axes' = w.device_axes
    /\ motor_call' = [name |-> name, motor |-> motor, arguments |-> arguments,
                      raised |-> w.raised, result |-> w.result, frames |-> w.frames,
                      position_written_in |-> w.position_written_in,
                      replies |-> w.replies]
    /\ UNCHANGED <<codec_vars, module_vars, thread_vars, wire_vars>>

\* The world at the call of a handler during which the port fails at the
\* given exchange.
WorldFaulty(answers, fault) ==
    WorldOf(motors, device_coordinates, device_axes, answers, fault)

MotorMoving ==
    /\ motor_call = MotorCallIdle
    /\ \E m \in DOMAIN motors, answers \in Answers(2) :
        handled("moving", m, <<>>, moving(World(answers), m))

MotorPositionGet ==
    /\ motor_call = MotorCallIdle
    /\ \E m \in DOMAIN motors :
        handled("position_get", m, <<>>, position_getter(World(<<>>), m))

MotorVelocityGet ==
    /\ motor_call = MotorCallIdle
    /\ \E m \in DOMAIN motors, answers \in Answers(1) :
        \/ handled("velocity", m, <<>>, velocity_getter(World(answers), m))
        \/ handled("acceleration", m, <<>>, acceleration_getter(World(answers), m))
        \/ /\ answers = <<0>>
           /\ handled("acceleration_moving_get", m, <<>>,
                      acceleration_moving_getter(World(<<>>), m))

MotorPositionSet ==
    /\ motor_call = MotorCallIdle
    /\ \E m \in DOMAIN motors, value \in PositionInputs, answers \in Answers(2) :
        handled("position", m, <<value>>, position_setter(World(answers), m, value))

MotorMoveRotate ==
    /\ motor_call = MotorCallIdle
    /\ \E m \in DOMAIN motors, right \in BOOLEAN, wait \in BOOLEAN, fault \in {0, 1} :
      \E answers \in (IF wait THEN Answers(MaxPolls) ELSE {<<>>}) :
        handled(IF right THEN "move_right" ELSE "move_left", m, <<wait>>,
                move_rotate(WorldFaulty(answers, fault), m, right, wait))

MotorMoveTo ==
    /\ motor_call = MotorCallIdle
    /\ \E m \in DOMAIN motors, position \in PositionInputs, wait \in BOOLEAN, fault \in {0, 1} :
      \E answers \in (IF wait THEN Answers(MaxPolls) ELSE {<<>>}) :
        handled("move_to", m, <<position, wait>>,
                move_to(WorldFaulty(answers, fault), m, position, wait))

MotorMoveToCoordinate ==
    /\ motor_call = MotorCallIdle
    /\ \E m \in DOMAIN motors, number \in CoordinateNumberInputs,
       wait \in BOOLEAN, fault \in {0, 1} :
      \E answers \in (IF wait THEN Answers(MaxPolls) ELSE {<<>>}) :
        handled("move_to_coordinate", m, <<number, wait>>,
                move_to_coordinate(WorldFaulty(answers, fault), m, number, wait))

MotorMoveBy ==
    /\ motor_call = MotorCallIdle
    /\ \E m \in DOMAIN motors, distance \in DistanceInputs,
       wait \in BOOLEAN, fault \in {0, 1} :
      \E answers \in (IF wait THEN Answers(MaxPolls) ELSE {<<>>}) :
        handled("move_by", m, <<distance, wait>>,
                move_by(WorldFaulty(answers, fault), m, distance, wait))

MotorStop ==
    /\ motor_call = MotorCallIdle
    /\ \E m \in DOMAIN motors, wait \in BOOLEAN :
      \E answers \in (IF wait THEN Answers(MaxPolls + 1) ELSE {<<>>}) :
        handled("stop", m, <<wait>>, stop(World(answers), m, wait))

MotorCoordinatesSetItem ==
    /\ motor_call = MotorCallIdle
    /\ \E m \in DOMAIN motors, number \in CoordinateNumberInputs, position \in PositionInputs :
        handled("coordinates", m, <<number, position>>,
                coordinates_setitem(World(<<>>), m, number, position))

MotorDirectionReversedSet ==
    /\ motor_call = MotorCallIdle
    /\ \E m \in DOMAIN motors, direction_reversed \in BOOLEAN, fault \in Faults :
        handled("direction_reversed", m, <<direction_reversed>>,
                direction_reversed_setter(WorldFaulty(<<>>, fault), m, direction_reversed))

\* The position vectors a caller assigns to a coordinate of the module.
ModulePositionInputs ==
    {<<>>} \cup {<<Int32(INT32_MINIMUM), second>> : second \in UnionPositionInputs}

ModuleCoordinatesSetItem ==
    /\ motor_call = MotorCallIdle
    /\ \E number \in CoordinateNumberInputs, position \in ModulePositionInputs :
        handled("module_coordinates", -1, <<number, position>>,
                module_coordinates_setitem(World(<<>>), number, position))

ModuleCoordinatesGetItem ==
    /\ motor_call = MotorCallIdle
    /\ \E number \in CoordinateNumberInputs :
        handled("module_coordinates_get", -1, <<number>>,
                module_coordinates_getitem(World(<<>>), number))

MotorUnionConstruct ==
    /\ motor_call = MotorCallIdle
    /\ \E motor_numbers \in MotorNumbersInputs, number \in CoordinateNumberInputs :
        handled("union_init", -1, <<motor_numbers, number>>,
                raise(World(<<>>), union_init(motor_numbers, number)))

MotorUnionMoving ==
    /\ motor_call = MotorCallIdle
    /\ \E answers \in Answers(2 * Len(UnionMotors)) :
        handled("union_moving", -1, <<>>, union_moving(World(answers), 1))

MotorUnionPositionSet ==
    /\ motor_call = MotorCallIdle
    /\ \E position \in ModulePositionInputs, answers \in Answers(2) :
        handled("union_position", -1, <<position>>,
                union_position_setter(World(answers), position))

MotorUnionMoveTo ==
    /\ motor_call = MotorCallIdle
    /\ \E first \in PositionInputs, second \in UnionPositionInputs,
       wait \in BOOLEAN, synchronously \in BOOLEAN, fault \in 0 .. Len(UnionMotors) + 1 :
      \E answers \in (IF wait /\ fault = 0 THEN Answers(MaxPolls + 1) ELSE {<<>>}) :
        handled("union_move_to", -1, <<<<first, second>>, wait, synchronously>>,
                union_move_to(WorldFaulty(answers, fault), <<first, second>>,
                              wait, synchronously))

\* Values a caller passes to a setter that has the given bounds: both
\* bounds, the values 2^-8 of a bound outside, and one value between them
\* (the maximum at the greatest divisor exponent).
ExtremaInputs(minimum, maximum) ==
    {minimum, maximum,
     Float(minimum.m * 255, minimum.x - 8),
     Float(maximum.m * 257, maximum.x - 8),
     Float(maximum.m, maximum.x - 13)}

\* Microstep resolutions a caller passes: the least, the greatest, and a
\* value that is none.
MicrostepResolutionInputs == {1, 256, 3}

MotorVelocityMovingSet ==
    /\ motor_call = MotorCallIdle
    /\ \E m \in DOMAIN motors, answers \in Answers(1) :
      \E value \in ExtremaInputs(motors[m].velocity_minimum, motors[m].velocity_maximum) :
        handled("velocity_moving", m, <<value>>,
                velocity_moving_setter(World(answers), m, value))

\* The velocity_moving setter for the greatest velocity of each pulse
\* divisor exponent.
MotorVelocityOfExponentSet ==
    /\ motor_call = MotorCallIdle
    /\ \E m \in DOMAIN motors, answers \in Answers(1) :
      \E exponent \in 0 .. PULSE_DIVISOR_EXPONENT_MAXIMUM :
        LET value == Float(motors[m].velocity_maximum.m,
                           motors[m].velocity_maximum.x - exponent)
        IN  handled("velocity_moving", m, <<value>>,
                    velocity_moving_setter(World(answers), m, value))

MotorAccelerationMovingSet ==
    /\ motor_call = MotorCallIdle
    /\ \E m \in DOMAIN motors, answers \in Answers(1) :
      \E value \in ExtremaInputs(motors[m].acceleration_minimum,
                                 motors[m].acceleration_maximum) :
        handled("acceleration_moving", m, <<value>>,
                acceleration_moving_setter(World(answers), m, value))

MotorMicrostepResolutionSet ==
    /\ motor_call = MotorCallIdle
    /\ \E m \in DOMAIN motors, answers \in Answers(1) :
      \E value \in MicrostepResolutionInputs :
        handled("microstep_resolution", m, <<value>>,
                microstep_resolution_setter(World(answers), m, value))

MotorCurrentMovingSet ==
    /\ motor_call = MotorCallIdle
    /\ \E m \in DOMAIN motors :
      \E value \in (MOTOR_CURRENT_MINIMUM - 1) .. (MOTOR_CURRENT_MAXIMUM + 1) :
        handled("current_moving", m, <<value>>,
                current_moving_setter(World(<<>>), m, value))

\* The numerators n of the values n / 2^bit_length(n) of a dividend over a
\* divisor a caller passes: 1/2, 3/4, 2047/2048 and 4095/4096 of it.
DivisorNumerators == {1, 3, VELOCITY_PORTIONS - 1, 2 * VELOCITY_PORTIONS - 1}

\* The exponents of the pulse divisors a caller's velocity is for: the
\* least, the greatest, and their neighbours.
PulseDivisorInputs ==
    {0, 1, PULSE_DIVISOR_EXPONENT_MAXIMUM - 1, PULSE_DIVISOR_EXPONENT_MAXIMUM}

\* The distances of the ramp divisor exponent from the pulse divisor
\* exponent a caller's acceleration is for.
RampDistances == -1 .. 2

\* The velocity_moving setter for the numerators of
\* __VELOCITY_DIVIDEND / (microstep_resolution * 2^exponent).
MotorVelocityOfDivisorSet ==
    /\ motor_call = MotorCallIdle
    /\ \E m \in DOMAIN motors, answers \in Answers(1) :
      \E exponent \in PulseDivisorInputs, numerator \in DivisorNumerators :
        LET value == Float(numerator * VELOCITY_DIVIDEND.m,
                           VELOCITY_DIVIDEND.x - exponent - bit_length(numerator)
                               - (bit_length(motors[m].microstep_resolution) - 1))
        IN  handled("velocity_moving", m, <<value>>,
                    velocity_moving_setter(World(answers), m, value))

\* The acceleration_moving setter for the numerators of
\* __ACCELERATION_DIVIDEND / (microstep_resolution * 2^exponent), for the
\* exponents about twice the pulse divisor exponent.
MotorAccelerationOfDivisorSet ==
    /\ motor_call = MotorCallIdle
    /\ \E m \in DOMAIN motors, answers \in Answers(1) :
      \E distance \in RampDistances, numerator \in DivisorNumerators :
        LET exponent == 2 * motors[m].pulse_divisor_exponent + distance
            value == Float(numerator * ACCELERATION_DIVIDEND.m,
                           ACCELERATION_DIVIDEND.x - exponent - bit_length(numerator) + 1
                               - (bit_length(motors[m].microstep_resolution) - 1))
        IN  handled("acceleration_moving", m, <<value>>,
                    acceleration_moving_setter(World(answers), m, value))

MotorFactorySettingsRestore ==
    /\ motor_call = MotorCallIdle
    /\ handled("factory_settings_restore", -1, <<>>, factory_settings_restore(World(<<>>)))

\* The caller takes the outcome of the handler.
MotorReturn ==
    /\ motor_call # MotorCallIdle
    /\ motor_call' = MotorCallIdle
    /\ UNCHANGED <<motors, device_coordinates, device_axes>>
    /\ UNCHANGED <<codec_vars, module_vars, thread_vars, wire_vars>>

\* SpecMotor: the motors of the union, the handlers of the union and the
\* handlers of its motors the union relies on, and the coordinates of the
\* module.
MotorInit ==
    /\ CodecIdle
    /\ ModuleConstructed
    /\ heartbeat_timeout = HEARTBEAT_TIMEOUT_DISABLED
    /\ MotorsConstructed

MotorNext ==
    \/ MotorMoving
    \/ MotorMoveTo
    \/ MotorCoordinatesSetItem
    \/ MotorUnionConstruct
    \/ MotorUnionMoving
    \/ MotorUnionMoveTo
    \/ ModuleCoordinatesSetItem
    \/ ModuleCoordinatesGetItem
    \/ MotorReturn

SpecMotor == MotorInit /\ [][MotorNext]_vars

\* SpecAxis: one motor and every handler that moves it, stops it, reads
\* it or reverses its direction.
AxisInit ==
    /\ CodecIdle
    /\ ModuleConstructed
    /\ heartbeat_timeout = HEARTBEAT_TIMEOUT_DISABLED
    /\ \E ramp_mode \in {RAMP_MODE_POSITION, RAMP_MODE_POSITION_SOFT, RAMP_MODE_VELOCITY} :
        MotorsConstructedWith([m \in {0} |-> ramp_mode], HeldDefault)

AxisNext ==
    \/ MotorMoving
    \/ MotorPositionGet
    \/ MotorVelocityGet
    \/ MotorPositionSet
    \/ MotorMoveRotate
    \/ MotorMoveTo
    \/ MotorMoveToCoordinate
    \/ MotorMoveBy
    \/ MotorStop
    \/ MotorCoordinatesSetItem
    \/ MotorDirectionReversedSet
    \/ MotorReturn

SpecAxis == AxisInit /\ [][AxisNext]_vars

\* SpecDrive: one motor and the setters of its velocity, acceleration,
\* microstep resolution and position, between moves.
DriveInit ==
    /\ CodecIdle
    /\ ModuleConstructed
    /\ heartbeat_timeout = HEARTBEAT_TIMEOUT_DISABLED
    /\ \E held \in HeldInputs :
        MotorsConstructedWith([m \in {0} |-> RAMP_MODE_POSITION], held)

DriveNext ==
    \/ MotorMoving
    \/ MotorPositionSet
    \/ MotorMoveRotate
    \/ MotorVelocityMovingSet
    \/ MotorAccelerationMovingSet
    \/ MotorMicrostepResolutionSet
    \/ MotorReturn

SpecDrive == DriveInit /\ [][DriveNext]_vars

\* SpecRestore: one motor, the setters of its velocity and position, and
\* the restore of the factory settings of the module.
RestoreInit ==
    /\ CodecIdle
    /\ ModuleConstructed
    /\ heartbeat_timeout = HEARTBEAT_TIMEOUT_DISABLED
    /\ MotorsConstructedWith([m \in {0} |-> RAMP_MODE_POSITION], HeldDefault)

RestoreNext ==
    \/ MotorPositionSet
    \/ MotorVelocityOfExponentSet
    \/ MotorFactorySettingsRestore
    \/ MotorReturn

SpecRestore == RestoreInit /\ [][RestoreNext]_vars

\* SpecReverse: two motors, the coordinates of each and the reversal of
\* the direction of each.
ReverseInit ==
    /\ CodecIdle
    /\ ModuleConstructed
    /\ heartbeat_timeout = HEARTBEAT_TIMEOUT_DISABLED
    /\ MotorsConstructedWith([m \in Motors |-> RAMP_MODE_POSITION], HeldDefault)

ReverseNext ==
    \/ MotorCoordinatesSetItem
    \/ MotorDirectionReversedSet
    \/ MotorReturn

SpecReverse == ReverseInit /\ [][ReverseNext]_vars

\* SpecConvert: one motor of each microstep resolution and the setters of
\* its velocity and acceleration, for values at and next to the greatest
\* value of each divisor exponent.
ConvertInit ==
    /\ CodecIdle
    /\ ModuleConstructed
    /\ heartbeat_timeout = HEARTBEAT_TIMEOUT_DISABLED
    /\ \E exponent \in 0 .. 8 :
        MotorsConstructedWith([m \in {0} |-> RAMP_MODE_POSITION],
                              Held(exponent, 3, 7, 1000, 500, 128))

ConvertNext ==
    \/ MotorVelocityOfDivisorSet
    \/ MotorAccelerationOfDivisorSet
    \/ MotorReturn

SpecConvert == ConvertInit /\ [][ConvertNext]_vars

\* SpecPosition: two motors and their union: the reads and the
\* assignments of the position of a motor and of the union, between moves.
PositionInit ==
    /\ CodecIdle
    /\ ModuleConstructed
    /\ heartbeat_timeout = HEARTBEAT_TIMEOUT_DISABLED
    /\ MotorsConstructedWith([m \in Motors |-> RAMP_MODE_POSITION], HeldDefault)

PositionNext ==
    \/ MotorMoving
    \/ MotorPositionGet
    \/ MotorPositionSet
    \/ MotorMoveTo
    \/ MotorUnionPositionSet
    \/ MotorReturn

SpecPosition == PositionInit /\ [][PositionNext]_vars

\* SpecCurrent: one motor and the setter of its current.
CurrentInit ==
    /\ CodecIdle
    /\ ModuleConstructed
    /\ heartbeat_timeout = HEARTBEAT_TIMEOUT_DISABLED
    /\ MotorsConstructedWith([m \in {0} |-> RAMP_MODE_POSITION], HeldDefault)

CurrentNext ==
    \/ MotorCurrentMovingSet
    \/ MotorReturn

SpecCurrent == CurrentInit /\ [][CurrentNext]_vars

(***************************************************************************)
(* SpecShared: two caller threads on one motor, one step per access to a   *)
(* field of the Motor object and per exchange with the device (an exchange *)
(* is made under the port lock).  The first caller starts the moves, the   *)
(* second one polls, stops and reads the position.  The device is kept     *)
(* with what it reports: the position reached flag and the target and the  *)
(* actual velocity.                                                        *)
(***************************************************************************)
Movers == {"caller_1"}

\* The position the first caller moves the motor to.
SharedTarget == POSITION_MAXIMUM

\* The operations a caller begins, with an argument that says whether the
\* operation waits while the motor is moving (1) or not (0).
SharedOperations(t) ==
    IF t \in Movers THEN {"move_right", "move_to"} \X {0, 1}
    ELSE ({"moving", "position"} \X {0}) \cup ({"wait_while_moving"} \X {1})
            \cup ({"stop"} \X {0, 1})

\* The parameters the device reports the motion of an axis with.
DeviceMotion ==
    {PARAMETER_POSITION_REACHED, PARAMETER_VELOCITY_TARGET, PARAMETER_VELOCITY_ACTUAL}

\* What a step of a thread leaves as it is.
shared_unchanged ==
    /\ UNCHANGED <<codec_vars, module_vars, wire_vars>>
    /\ UNCHANGED <<device_coordinates, motor_call, raised, rx_count>>

\* A step of thread t from one position of its operation to the next that
\* leaves the motor, the device and the argument as they are.
shared_goto(t, next) ==
    /\ pc' = [pc EXCEPT ![t] = next]
    /\ UNCHANGED <<op, arg, tx_count>>
    /\ shared_unchanged

\* A step of thread t that writes a field of the motor.
shared_write(t, next, motor) ==
    /\ motors' = [motors EXCEPT ![0] = motor]
    /\ UNCHANGED device_axes
    /\ shared_goto(t, next)

\* A step of thread t that reads a field of the motor or a parameter of
\* the device.
shared_read(t, next) ==
    /\ UNCHANGED <<motors, device_axes>>
    /\ shared_goto(t, next)

\* A step of thread t that sends a motion command the device acts on.
shared_command(t, next, axis) ==
    /\ device_axes' = [device_axes EXCEPT ![0] = axis]
    /\ pc' = [pc EXCEPT ![t] = next]
    /\ tx_count' = [tx_count EXCEPT ![t] = @ + 1]
    /\ UNCHANGED <<motors, op, arg>>
    /\ shared_unchanged

\* The position after a command of an operation: the wait or the return.
shared_after_command(t) == IF arg[t] = 1 THEN "moving" ELSE "return"

\* A caller begins an operation on the motor.
shared_begin(t, operation, wait) ==
    /\ pc[t] = "idle"
    /\ pc' = [pc EXCEPT ![t] =
                CASE operation = "move_right" -> "indicate_ramp_mode"
                  [] operation = "move_to" -> "move_to"
                  [] operation = "stop" -> "stop"
                  [] operation = "position" -> "position"
                  [] OTHER -> "moving"]
    /\ op' = [op EXCEPT ![t] = operation]
    /\ arg' = [arg EXCEPT ![t] = wait]
    /\ tx_count' = [tx_count EXCEPT ![t] = 0]
    /\ UNCHANGED <<motors, device_axes>>
    /\ shared_unchanged

\* Motor.move_to: if not self.__moving and self.__position_valid and
\* self.__position == position : return
move_to_moving(t) ==
    /\ pc[t] = "move_to"
    /\ shared_read(t, IF motors[0].moving THEN "indicate_ramp_mode" ELSE "move_to_position_valid")

move_to_position_valid(t) ==
    /\ pc[t] = "move_to_position_valid"
    /\ shared_read(t, IF motors[0].position_valid THEN "move_to_position"
                      ELSE "indicate_ramp_mode")

move_to_position(t) ==
    /\ pc[t] = "move_to_position"
    /\ shared_read(t, IF motors[0].position = Int32(SharedTarget) THEN "return"
                      ELSE "indicate_ramp_mode")

\* Motor._move_indicate, one assignment per step.
move_indicate_ramp_mode(t) ==
    /\ pc[t] = "indicate_ramp_mode"
    /\ shared_write(t, "indicate_moving",
            [motors[0] EXCEPT !.ramp_mode = IF op[t] = "move_to" THEN RAMP_MODE_POSITION
                                            ELSE RAMP_MODE_VELOCITY])

move_indicate_moving(t) ==
    /\ pc[t] = "indicate_moving"
    /\ shared_write(t, "indicate_moving_detect", [motors[0] EXCEPT !.moving = TRUE])

move_indicate_moving_detect(t) ==
    /\ pc[t] = "indicate_moving_detect"
    /\ shared_write(t, "indicate_position_valid",
            [motors[0] EXCEPT !.moving_detect = moving_detect_of(motors[0].ramp_mode)])

move_indicate_position_valid(t) ==
    /\ pc[t] = "indicate_position_valid"
    /\ shared_write(t, "indicate_position", [motors[0] EXCEPT !.position_valid = FALSE])

move_indicate_position(t) ==
    /\ pc[t] = "indicate_position"
    /\ shared_write(t, "command", [motors[0] EXCEPT !.position = Int32(0)])

\* Module._motor_rotate_right and Module._motor_move_to: the device starts
\* the motion.
move_command(t) ==
    /\ pc[t] = "command"
    /\ shared_command(t, shared_after_command(t),
            IF op[t] = "move_to"
                THEN [device_axes[0] EXCEPT
                        !.position_target = wide_times_sign(motors[0].direction_sign,
                                                            Int32(SharedTarget)).v,
                        !.parameters[PARAMETER_RAMP_MODE] = RAMP_MODE_POSITION,
                        !.parameters[PARAMETER_POSITION_REACHED] = 0,
                        !.parameters[PARAMETER_VELOCITY_ACTUAL] = 1]
                ELSE [device_axes[0] EXCEPT
                        !.parameters[PARAMETER_RAMP_MODE] = RAMP_MODE_VELOCITY,
                        !.parameters[PARAMETER_POSITION_REACHED] = 0,
                        !.parameters[PARAMETER_VELOCITY_TARGET] =
                            motors[0].velocity_moving_internal,
                        !.parameters[PARAMETER_VELOCITY_ACTUAL] =
                            motors[0].velocity_moving_internal])

\* The detector has returned to Motor.moving: the caller of moving takes
\* the result, the caller that waits sleeps and asks again while it is True.
shared_moving_returns(t, result) ==
    /\ pc' = [pc EXCEPT ![t] = IF op[t] # "moving" /\ result THEN "moving" ELSE "return"]
    /\ arg' = [arg EXCEPT ![t] = IF op[t] = "moving" THEN (IF result THEN 1 ELSE 0) ELSE @]
    /\ UNCHANGED <<op, tx_count>>
    /\ shared_unchanged

\* The detector returns without a write.
shared_moving_read(t, result) ==
    /\ UNCHANGED <<motors, device_axes>>
    /\ shared_moving_returns(t, result)

\* Motor.moving (getter): if not self.__moving : return False
moving_flag(t) ==
    /\ pc[t] = "moving"
    /\ IF motors[0].moving THEN shared_read(t, "moving_detect")
       ELSE shared_moving_read(t, FALSE)

\* return self.__moving_detect(): the detector is read and called.
moving_detect_call(t) ==
    /\ pc[t] = "moving_detect"
    /\ IF motors[0].moving_detect = "false" THEN shared_moving_read(t, FALSE)
       ELSE shared_read(t, "detect_" \o motors[0].moving_detect)

\* Motor.__moving_detect_position: the position reached flag is read.
detect_position_read(t) ==
    /\ pc[t] = "detect_position"
    /\ IF device_axes[0].parameters[PARAMETER_POSITION_REACHED] = 0
        THEN shared_moving_read(t, TRUE)
        ELSE shared_read(t, "detected_moving")

\* A velocity detector that takes the motor as moving whatever the target
\* velocity is.
detect_velocity_read_rotating(t) ==
    /\ pc[t] = "detect_velocity"
    /\ shared_moving_read(t, TRUE)

\* Motor.__moving_detect_velocity: the target velocity is read.
detect_velocity_read(t) ==
    /\ pc[t] = "detect_velocity"
    /\ IF device_axes[0].parameters[PARAMETER_VELOCITY_TARGET] # 0
        THEN shared_moving_read(t, TRUE)
        ELSE shared_read(t, "detect_velocity_phase")

\* self.__moving_detect = moving_detect (the second phase)
detect_velocity_phase(t) ==
    /\ pc[t] = "detect_velocity_phase"
    /\ shared_write(t, "detect_velocity_2", [motors[0] EXCEPT !.moving_detect = "velocity_2"])

\* Motor.__moving_detect_velocity_2: the actual velocity is read.
detect_velocity_2_read(t) ==
    /\ pc[t] = "detect_velocity_2"
    /\ IF device_axes[0].parameters[PARAMETER_VELOCITY_ACTUAL] # 0
        THEN shared_moving_read(t, TRUE)
        ELSE shared_read(t, "detected_moving")

\* self.__moving = False
detected_moving(t) ==
    /\ pc[t] = "detected_moving"
    /\ shared_write(t, "detected_moving_detect", [motors[0] EXCEPT !.moving = FALSE])

\* self.__moving_detect = self.__moving_detect_false; return False
detected_moving_detect(t) ==
    /\ pc[t] = "detected_moving_detect"
    /\ motors' = [motors EXCEPT ![0].moving_detect = "false"]
    /\ UNCHANGED device_axes
    /\ shared_moving_returns(t, FALSE)

\* Motor.stop: if not self.__moving : return
stop_moving(t) ==
    /\ pc[t] = "stop"
    /\ shared_read(t, IF motors[0].moving THEN "stop_ramp_mode" ELSE "return")

\* self.__ramp_mode = Motor._RampMode.VELOCITY
stop_ramp_mode(t) ==
    /\ pc[t] = "stop_ramp_mode"
    /\ shared_write(t, "stop_moving_detect", [motors[0] EXCEPT !.ramp_mode = RAMP_MODE_VELOCITY])

\* self.__moving_detect = self.__moving_detect_velocity
stop_moving_detect(t) ==
    /\ pc[t] = "stop_moving_detect"
    /\ shared_write(t, "stop_command", [motors[0] EXCEPT !.moving_detect = "velocity"])

\* Module._motor_stop: the device takes the target velocity 0.
stop_command(t) ==
    /\ pc[t] = "stop_command"
    /\ shared_command(t, shared_after_command(t),
            [device_axes[0] EXCEPT
                !.parameters[PARAMETER_RAMP_MODE] = RAMP_MODE_VELOCITY,
                !.parameters[PARAMETER_VELOCITY_TARGET] = 0])

\* Motor.position (getter): if self.__position_valid : return
position_valid_read(t) ==
    /\ pc[t] = "position"
    /\ shared_read(t, IF motors[0].position_valid THEN "return" ELSE "position_actual")

\* value = self.__direction_sign * self._position_actual_get(): the
\* thread keeps the value.
position_actual_read(t) ==
    /\ pc[t] = "position_actual"
    /\ pc' = [pc EXCEPT ![t] = "position_moving"]
    /\ arg' = [arg EXCEPT ![t] =
                wide_times_sign(motors[0].direction_sign,
                                Int32(device_axes[0].position_actual)).v]
    /\ tx_count' = [tx_count EXCEPT ![t] = @ + 1]
    /\ UNCHANGED <<motors, device_axes, op>>
    /\ shared_unchanged

\* if not self.__moving
position_moving(t) ==
    /\ pc[t] = "position_moving"
    /\ shared_read(t, IF motors[0].moving THEN "return" ELSE "position_cache")

\* self.__position = value
position_cache(t) ==
    /\ pc[t] = "position_cache"
    /\ shared_write(t, "position_cache_valid", [motors[0] EXCEPT !.position = Int32(arg[t])])

\* self.__position_valid = True
position_cache_valid(t) ==
    /\ pc[t] = "position_cache_valid"
    /\ shared_write(t, "return", [motors[0] EXCEPT !.position_valid = TRUE])

\* The operation returns to its caller.
shared_return(t) ==
    /\ pc[t] = "return"
    /\ pc' = [pc EXCEPT ![t] = "idle"]
    /\ op' = [op EXCEPT ![t] = "none"]
    /\ arg' = [arg EXCEPT ![t] = 0]
    /\ tx_count' = [tx_count EXCEPT ![t] = 0]
    /\ UNCHANGED <<motors, device_axes>>
    /\ shared_unchanged

\* The device reaches the target position of a move.
device_arrive ==
    /\ device_axes[0].parameters[PARAMETER_RAMP_MODE] = RAMP_MODE_POSITION
    /\ device_axes[0].parameters[PARAMETER_POSITION_REACHED] = 0
    /\ device_axes' = [device_axes EXCEPT
            ![0].position_actual = device_axes[0].position_target,
            ![0].parameters[PARAMETER_POSITION_REACHED] = 1,
            ![0].parameters[PARAMETER_VELOCITY_ACTUAL] = 0]
    /\ UNCHANGED <<motors, thread_vars>>
    /\ UNCHANGED <<codec_vars, module_vars, wire_vars, device_coordinates, motor_call>>

\* The device comes to rest after a stop.
device_halt ==
    /\ device_axes[0].parameters[PARAMETER_RAMP_MODE] = RAMP_MODE_VELOCITY
    /\ device_axes[0].parameters[PARAMETER_VELOCITY_TARGET] = 0
    /\ device_axes[0].parameters[PARAMETER_VELOCITY_ACTUAL] # 0
    /\ device_axes' = [device_axes EXCEPT ![0].parameters[PARAMETER_VELOCITY_ACTUAL] = 0]
    /\ UNCHANGED <<motors, thread_vars>>
    /\ UNCHANGED <<codec_vars, module_vars, wire_vars, device_coordinates, motor_call>>

\* The module and its motor after construction, on a device that is at
\* rest or in a move to a position.
SharedInit ==
    /\ CodecIdle
    /\ ModuleConstructed
    /\ heartbeat_timeout = HEARTBEAT_TIMEOUT_DISABLED
    /\ motors = [m \in {0} |-> MotorConstructedWith(RAMP_MODE_POSITION, HeldDefault).motors[0]]
    /\ device_coordinates = [n \in CoordinateNumbers |-> [m \in {0} |-> 0]]
    /\ \E reached \in {0, 1} :
        device_axes = [m \in {0} |->
            LET axis == MotorConstructedWith(RAMP_MODE_POSITION, HeldDefault).device_axes[0]
            IN  [axis EXCEPT !.parameters =
                    [parameter \in DOMAIN axis.parameters \cup DeviceMotion |->
                        IF parameter \in DOMAIN axis.parameters THEN axis.parameters[parameter]
                        ELSE IF parameter = PARAMETER_POSITION_REACHED THEN reached
                        ELSE IF parameter = PARAMETER_VELOCITY_ACTUAL THEN 1 - reached
                        ELSE 0]]]
    /\ motor_call = MotorCallIdle

SharedBegin ==
    \E t \in Callers : \E operation \in SharedOperations(t) :
        shared_begin(t, operation[1], operation[2])

SharedMoveTo ==
    \E t \in Callers : move_to_moving(t) \/ move_to_position_valid(t) \/ move_to_position(t)

SharedMoveIndicate ==
    \E t \in Callers :
        \/ move_indicate_ramp_mode(t)
        \/ move_indicate_moving(t)
        \/ move_indicate_moving_detect(t)
        \/ move_indicate_position_valid(t)
        \/ move_indicate_position(t)

SharedMoveCommand == \E t \in Callers : move_command(t)

SharedMoving == \E t \in Callers : moving_flag(t) \/ moving_detect_call(t)

SharedDetect ==
    \E t \in Callers :
        \/ detect_position_read(t)
        \/ detect_velocity_read(t)
        \/ detect_velocity_phase(t)
        \/ detect_velocity_2_read(t)
        \/ detected_moving(t)
        \/ detected_moving_detect(t)

SharedStop ==
    \E t \in Callers :
        stop_moving(t) \/ stop_ramp_mode(t) \/ stop_moving_detect(t) \/ stop_command(t)

SharedPosition ==
    \E t \in Callers :
        \/ position_valid_read(t)
        \/ position_actual_read(t)
        \/ position_moving(t)
        \/ position_cache(t)
        \/ position_cache_valid(t)

SharedReturn == \E t \in Callers : shared_return(t)

\* A step of a thread within its operation.
SharedStep ==
    \/ SharedMoveTo
    \/ SharedMoveIndicate
    \/ SharedMoveCommand
    \/ SharedMoving
    \/ SharedDetect
    \/ SharedStop
    \/ SharedPosition
    \/ SharedReturn

SharedNext ==
    \/ SharedBegin
    \/ SharedStep
    \/ device_arrive
    \/ device_halt

SpecShared == SharedInit /\ [][SharedNext]_vars

\* The scheduler lets every thread that is within an operation take its
\* next step, and the device finishes what it was commanded.
FairSpecShared ==
    /\ SpecShared
    /\ \A t \in Callers : WF_vars(SharedStep /\ pc'[t] # pc[t])
    /\ WF_vars(device_arrive)
    /\ WF_vars(device_halt)

(***************************************************************************)
(* Claims on the frame codec and the classmethods (SpecCodec).             *)
(***************************************************************************)
\* The sum of the first 8 bytes of a frame, modulo 256.
FrameChecksum(frame) ==
    (frame[1] + frame[2] + frame[3] + frame[4]
     + frame[5] + frame[6] + frame[7] + frame[8]) % 256

\* The signed 32-bit number whose big-endian two's complement is bytes
\* 5 to 8 of a frame.
FrameValue(frame) ==
    frame[8] + 256 * frame[7] + 65536 * frame[6]
    + 16777216 * (frame[5] - (IF frame[5] > 127 THEN 256 ELSE 0))

\* C3: every request frame transmitted is exactly 9 bytes: the address,
\* the command, the type, the bank, the value as 4 bytes big-endian two's
\* complement, and the checksum, which is the sum of the first 8 bytes
\* modulo 256; for the addresses 1 and 255 and values up to both bounds of
\* the signed 32-bit range.
C3_RequestFrame ==
    port_tx # <<>> =>
        /\ Len(port_tx) = 9
        /\ \A i \in 1..9 : port_tx[i] \in 0..255
        /\ port_tx[1] = call.address
        /\ port_tx[2] = call.command
        /\ port_tx[3] = call.type_number
        /\ port_tx[4] = call.bank_number
        /\ FrameValue(port_tx) = call.value
        /\ port_tx[9] = FrameChecksum(port_tx)

\* C3 witness: the frame of a request of the module at address 255 with
\* the most negative value is on the port.
C3_Witness ==
    /\ port_tx # <<>>
    /\ call.address = ADDRESS_MAXIMUM
    /\ call.value = INT32_MINIMUM
    /\ port_tx[5] = 128

\* C4: a reply whose checksum byte differs from the sum of its first 8
\* bytes modulo 256 raises ChecksumReplyException, whatever its address,
\* status and command bytes are.
C4_ChecksumFirst ==
    (call.phase = "done" /\ port_rx # <<>> /\ port_rx[9] # FrameChecksum(port_rx))
        => call.raised = "ChecksumReplyException"

\* C4 witness: a reply with a wrong checksum, another module's address, an
\* error status and another command's number has been read.
C4_Witness ==
    /\ call.phase = "done"
    /\ port_rx # <<>>
    /\ port_rx[9] # FrameChecksum(port_rx)
    /\ port_rx[2] # call.address
    /\ port_rx[3] = COMMAND_INVALID
    /\ port_rx[4] # call.command
    /\ call.raised = "ChecksumReplyException"

\* A reply with a right checksum has been read by identify or by a port
\* transceive (construct goes on to look at the model).
ReplyChecked ==
    /\ call.phase = "done"
    /\ call.op \in {"identify", "transceive"}
    /\ port_rx # <<>>
    /\ port_rx[9] = FrameChecksum(port_rx)

\* C5 as claimed: for a checksum-valid reply, an address other than the
\* requested one raises AddressException; otherwise status CHECKSUM_WRONG
\* raises ChecksumRequestException; otherwise a status outside {SUCCESS,
\* COMMAND_LOADED} raises InternalException; and a reply with status
\* SUCCESS or COMMAND_LOADED and the matching command echo returns its
\* value.
C5_StatusMappingClaimed ==
    ReplyChecked =>
        IF port_rx[2] # call.address THEN call.raised = "AddressException"
        ELSE IF port_rx[3] = CHECKSUM_WRONG THEN call.raised = "ChecksumRequestException"
        ELSE IF port_rx[3] \notin {SUCCESS, COMMAND_LOADED}
            THEN call.raised = "InternalException"
        ELSE port_rx[4] = call.command =>
                (call.raised = "none" /\ call.returned = FrameValue(port_rx))

\* C5 amended: for a checksum-valid reply, an address other than the
\* requested one raises AddressException; otherwise status CHECKSUM_WRONG
\* raises ChecksumRequestException; otherwise a status other than SUCCESS,
\* COMMAND_LOADED included, raises InternalException; and a reply with
\* status SUCCESS and the matching command echo returns its value.
C5_StatusMapping ==
    ReplyChecked =>
        IF port_rx[2] # call.address THEN call.raised = "AddressException"
        ELSE IF port_rx[3] = CHECKSUM_WRONG THEN call.raised = "ChecksumRequestException"
        ELSE IF port_rx[3] # SUCCESS THEN call.raised = "InternalException"
        ELSE port_rx[4] = call.command =>
                (call.raised = "none" /\ call.returned = FrameValue(port_rx))

\* C5 witness: a checksum-valid reply of the requested module with status
\* COMMAND_LOADED and the matching command echo has raised
\* InternalException.
C5_Witness ==
    /\ ReplyChecked
    /\ port_rx[2] = call.address
    /\ port_rx[3] = COMMAND_LOADED
    /\ port_rx[4] = call.command
    /\ call.raised = "InternalException"

\* The frames of identify and construct so far, by the address passed.
AddressVerified ==
    call.op \in {"identify", "construct"} =>
        IF call.address < 1 \/ call.address > 255
            THEN /\ call.phase = "done"
                 /\ call.raised = "ValueError"
                 /\ call.tx = 0 /\ call.rx = 0
                 /\ port_tx = <<>> /\ port_rx = <<>>
            ELSE /\ call.raised # "ValueError"
                 /\ call.tx = 1
                 /\ call.rx = (IF call.phase = "done" THEN 1 ELSE 0)
                 /\ port_tx[2] = CTL_FIRMWARE_VERSION_GET

\* C10: identify and construct with an address outside [1, 255] raise
\* ValueError with no frame transmitted and no reply read; identify with
\* an address inside transmits one request, then reads one reply, and is
\* done, and no step of identify changes a field of a module.
C10_AddressVerified ==
    /\ []AddressVerified
    /\ [][call'.op = "identify" => UNCHANGED module_vars]_vars

\* C10 witness: construct with address 256 has raised ValueError.
C10_Witness ==
    /\ call.op = "construct"
    /\ call.address = 256
    /\ call.phase = "done"
    /\ call.raised = "ValueError"

(***************************************************************************)
(* Claims on the threads of one module (Spec, FairSpec).                   *)
(***************************************************************************)
\* The threads that are between taking the lock and leaving it.
InExchange == {t \in Threads : pc[t] \in {"transmit", "receive", "restore_transmit"}}

\* C1: request/reply pairs never interleave on the port: between the
\* transmission of a request frame and the receipt of its reply no other
\* request frame of the module is transmitted, for every interleaving of
\* the caller threads and the heartbeat thread, which takes the same lock.
C1_NoInterleaving ==
    /\ ~wire_interleaved
    /\ Cardinality(InExchange) <= 1
    /\ \A t \in InExchange : port_lock = t

\* C1 witness: a caller waits for the reply of its request while the
\* heartbeat thread and the other caller wait for the lock.
C1_Witness ==
    /\ pc["caller_1"] = "receive"
    /\ pc[HeartbeatThread] = "acquire"
    /\ pc["caller_2"] \in {"acquire", "restore_acquire"}

\* C2 as claimed: after any sequence of public operations, including
\* factory_settings_restore, every request frame sent is followed by
\* exactly one reply read before the next request frame is sent.
C2_EveryRequestAnswered == wire_fault = "none"

\* C2 amended: every request frame sent other than the one of
\* factory_settings_restore is followed by exactly one reply read before
\* the next request frame is sent; the request frame of
\* factory_settings_restore is followed by no reply read.
C2_CommandRequestsAnswered ==
    /\ wire_fault # "command"
    /\ wire_reads <= 1
    /\ (wire_last = "restore" => wire_reads = 0)

\* C2 witness: a request has been sent and answered after the request of
\* factory_settings_restore, which was followed by no reply read.
C2_Witness ==
    /\ wire_fault = "restore"
    /\ wire_last = "command"
    /\ wire_reads = 1

\* C6: a transceive transmits exactly one request frame and reads exactly
\* one reply; a ChecksumRequestException or ChecksumReplyException of the
\* reply ends the operation with that exception, and no frame is
\* transmitted again.
C6_OneExchange ==
    \A t \in Threads :
        op[t] # "factory_settings_restore" =>
            /\ tx_count[t] <= 1
            /\ rx_count[t] <= tx_count[t]
            /\ (tx_count[t] = 1 /\ pc[t] # "receive") => rx_count[t] = 1
            /\ raised[t] \in {"ChecksumReplyException", "ChecksumRequestException"} =>
                  /\ pc[t] \in {"done", "dead"}
                  /\ tx_count[t] = 1
                  /\ rx_count[t] = 1

\* C6 witness: the command of a caller has ended with the
\* ChecksumRequestException of its reply.
C6_Witness ==
    \E t \in Callers :
        /\ op[t] = "command"
        /\ pc[t] = "done"
        /\ raised[t] = "ChecksumRequestException"
        /\ tx_count[t] = 1

\* C7: whenever heartbeat_timeout is greater than 0, whether set with the
\* setter or read from the device at construction, and the callers issue
\* no further commands, the heartbeat thread issues an application-status
\* query again and again.
C7_HeartbeatRepeats ==
    <>[](heartbeat_timeout > 0 /\ \A t \in Callers : pc[t] = "idle")
        => []<>(pc[HeartbeatThread] = "receive")

\* A caller is inside the heartbeat_timeout setter with the value 0.
Deactivating(t) ==
    op[t] = "heartbeat_timeout" /\ arg[t] = HEARTBEAT_TIMEOUT_DISABLED

\* C8: setting heartbeat_timeout to 0 always returns; when it returns
\* without an exception the heartbeat thread has ended and is joined, in
\* every interleaving, and while no thread is remembered no heartbeat
\* thread runs, so that no further status query is transmitted.
C8_DeactivationReturns ==
    /\ \A t \in Callers : (Deactivating(t) /\ pc[t] # "idle") ~> (pc[t] = "done")
    /\ [](\A t \in Callers :
            (Deactivating(t) /\ pc[t] = "done" /\ raised[t] = "none") =>
                /\ heartbeat_thread = "none"
                /\ pc[HeartbeatThread] = "none"
                /\ heartbeat_timeout = HEARTBEAT_TIMEOUT_DISABLED)
    /\ [](heartbeat_thread = "none" => pc[HeartbeatThread] = "none")

\* C8 witness: a caller that sets heartbeat_timeout to 0 is about to join
\* the heartbeat thread, which holds the lock and waits for the reply of
\* its status query.
C8_Witness ==
    \E t \in Callers :
        /\ Deactivating(t)
        /\ pc[t] = "setup_join"
        /\ pc[HeartbeatThread] = "receive"
        /\ port_lock = HeartbeatThread

(***************************************************************************)
(* Claims on the motors and the motor union (SpecMotor).                   *)
(***************************************************************************)
\* C9: every handler that rejects an argument as out of range (a position,
\* a coordinate number) raises before any frame has been exchanged during
\* that call; in particular MotorUnion.move_to with a position vector whose
\* later element is invalid, and a setter that is not allowed while the
\* motor is moving, called on a motor whose moving flag is set.
C9_RejectedBeforeExchange ==
    motor_call.raised \in {"ValueError", "IndexError"} => motor_call.frames = <<>>

(***************************************************************************)
(* Claims on the setters of one motor (SpecDrive, SpecCurrent).            *)
(***************************************************************************)
\* The setters that are refused while the motor is moving, the frames of a
\* handler that write a parameter, and what the getters of the setters
\* return from the motor object.
SettersWhileAtRest == {"velocity_moving", "acceleration_moving", "microstep_resolution", "position"}

ParameterWrites(frames) == {i \in DOMAIN frames : frames[i].command = SAP}

Cached(motor) ==
    [velocity_moving |-> motor.velocity_moving,
     acceleration_moving |-> motor.acceleration_moving,
     microstep_resolution |-> motor.microstep_resolution,
     position_valid |-> motor.position_valid,
     position |-> motor.position]

\* C11: a call of the setter velocity_moving, acceleration_moving,
\* microstep_resolution or position during which the motor is moving (the
\* moving flag is still set when the setter has asked the device) raises
\* StateException, sends no SAP frame and leaves every value cached for
\* the getters as it was.
C11_SettersRefusedWhileMoving ==
    [][(/\ motor_call = MotorCallIdle
        /\ motor_call'.name \in SettersWhileAtRest
        /\ motors'[motor_call'.motor].moving)
       => (/\ motor_call'.raised = "StateException"
           /\ ParameterWrites(motor_call'.frames) = {}
           /\ Cached(motors'[motor_call'.motor]) = Cached(motors[motor_call'.motor]))]_vars

\* C11 witness: the setter of the microstep resolution has been refused on
\* a motor that a rotation had started and the device reports as moving.
C11_Witness ==
    /\ motor_call.name = "microstep_resolution"
    /\ motor_call.raised = "StateException"
    /\ motors[motor_call.motor].moving
    /\ motors[motor_call.motor].ramp_mode = RAMP_MODE_VELOCITY
    /\ motor_call.frames # <<>>

(***************************************************************************)
(* Claims on the moves of one motor (SpecAxis).                            *)
(***************************************************************************)
\* The handlers that start a move of a motor.
MoveNames == {"move_right", "move_left", "move_to", "move_to_coordinate", "move_by"}

\* The handler that returns in this step, called on motor m.
Called(names, m) ==
    /\ motor_call = MotorCallIdle
    /\ motor_call'.name \in names
    /\ motor_call'.motor = m

\* C12: once moving has returned False for a motor (the motor is marked as
\* not moving), every read of moving returns False without asking the
\* device and velocity and acceleration return exactly 0, and the motor
\* stays so until a call that starts a move; stop() that waits leaves the
\* motor so.
C12_StoppedStaysStopped ==
    [][\A m \in DOMAIN motors :
        /\ (Called({"moving"}, m) /\ motor_call'.raised = "none" /\ ~motor_call'.result)
                => ~motors'[m].moving
        /\ (Called({"stop"}, m) /\ motor_call'.arguments[1] /\ motor_call'.raised = "none")
                => ~motors'[m].moving
        /\ (Called({"moving"}, m) /\ ~motors[m].moving)
                => (motor_call'.result = FALSE /\ motor_call'.frames = <<>>)
        /\ (Called({"velocity", "acceleration"}, m) /\ ~motors[m].moving)
                => (motor_call'.result = Float(0, 0) /\ motor_call'.frames = <<>>)
        /\ (~motors[m].moving /\ motors'[m].moving) => Called(MoveNames, m)]_vars

\* C12 witness: a read of the velocity on a motor that stop() or a
\* rotation had put into the velocity ramp mode and that moving has
\* reported as stopped since.
C12_Witness ==
    /\ motor_call.name = "velocity"
    /\ motor_call.result = Float(0, 0)
    /\ motors[motor_call.motor].ramp_mode = RAMP_MODE_VELOCITY
    /\ motors[motor_call.motor].moving_detect = "false"
    /\ ~motors[motor_call.motor].moving

\* The motion commands among the frames of a handler, and whether the
\* handler ended before it waited for the end of the move (it was asked
\* not to wait, or the exchange of the motion command failed).
MotionFrames(frames) == {i \in DOMAIN frames : frames[i].command \in {ROR, ROL, MVP}}

NotWaited(call_) ==
    \/ ~call_.arguments[Len(call_.arguments)]
    \/ call_.raised = "InternalException"

PositionReads(frames) ==
    {i \in DOMAIN frames :
        frames[i].command = GAP /\ frames[i].type_number = PARAMETER_POSITION_ACTUAL}

\* C13: a call of move_right, move_left, move_to, move_to_coordinate or
\* move_by that transmits a motion command has marked the motor as moving,
\* set the detector to velocity phase one (ROR, ROL) or to position
\* reached (MVP) and invalidated the cached position before: the motor is
\* so when the call ends without waiting, also when the exchange of the
\* motion command fails.  While the motor is marked as moving the cached
\* position is invalid and each read of position asks the device and
\* caches nothing; the first read after moving has returned False asks the
\* device and caches the value, and the reads after it return the cache.
C13_MoveIndicatedBeforeMotion ==
    [][\A m \in DOMAIN motors :
        /\ (Called(MoveNames, m) /\ MotionFrames(motor_call'.frames) # {}
                /\ NotWaited(motor_call'))
            => (/\ motors'[m].moving
                /\ ~motors'[m].position_valid
                /\ motors'[m].moving_detect =
                     IF motor_call'.frames[1].command = MVP THEN "position" ELSE "velocity"
                /\ motors'[m].ramp_mode =
                     IF motor_call'.frames[1].command = MVP THEN RAMP_MODE_POSITION
                     ELSE RAMP_MODE_VELOCITY)
        /\ motors'[m].moving => ~motors'[m].position_valid
        /\ (Called({"position_get"}, m) /\ motors[m].moving)
            => (/\ Cardinality(PositionReads(motor_call'.frames)) = 1
                /\ motors'[m] = motors[m])
        /\ (Called({"position_get"}, m) /\ ~motors[m].moving /\ ~motors[m].position_valid)
            => (/\ Cardinality(PositionReads(motor_call'.frames)) = 1
                /\ motors'[m].position_valid
                /\ motors'[m].position = motor_call'.result)
        /\ (Called({"position_get"}, m) /\ motors[m].position_valid)
            => (/\ motor_call'.frames = <<>>
                /\ motor_call'.result = motors[m].position
                /\ motors'[m] = motors[m])]_vars

\* C13 witness: move_by has been called without waiting on a motor that
\* was at rest with a cached position; the relative move has been sent and
\* the cache is invalid.
C13_Witness ==
    /\ motor_call.name = "move_by"
    /\ ~motor_call.arguments[2]
    /\ motor_call.raised = "none"
    /\ MotionFrames(motor_call.frames) = {1}
    /\ motors[motor_call.motor].moving
    /\ ~motors[motor_call.motor].position_valid
    /\ device_axes[motor_call.motor].position_actual # 0

\* The effects of a reversal of motor m in this step: the switch handles
\* swapped, the cached position negated, every stored coordinate of the
\* motor negated and the direction flag flipped.
Reversed(m) ==
    /\ motors'[m].switch_limit_right = motors[m].switch_limit_left
    /\ motors'[m].switch_limit_left = motors[m].switch_limit_right
    /\ motors'[m].position = wide_times_sign(-1, motors[m].position)
    /\ \A n \in CoordinateNumbers :
            Int32(device_coordinates'[n][m]) = wide_times_sign(-1, Int32(device_coordinates[n][m]))
    /\ motors'[m].direction_sign = -motors[m].direction_sign

NotReversed(m) ==
    /\ motors'[m] = motors[m]
    /\ \A n \in CoordinateNumbers : device_coordinates'[n][m] = device_coordinates[n][m]

\* C14: an assignment to direction_reversed is one atomic transition:
\* afterwards either the switch handles are swapped, the cached position
\* and every stored coordinate are negated and the direction flag is
\* flipped, or nothing has changed, also when an exchange fails or a stored
\* coordinate is -2^31; the moving flag, the ramp mode and the detector
\* stay as they are and no motion command is sent.
C14_ReversalAtomic ==
    [][\A m \in DOMAIN motors :
        Called({"direction_reversed"}, m)
            => (/\ Reversed(m) \/ NotReversed(m)
                /\ motors'[m].moving = motors[m].moving
                /\ motors'[m].ramp_mode = motors[m].ramp_mode
                /\ motors'[m].moving_detect = motors[m].moving_detect
                /\ MotionFrames(motor_call'.frames) = {})]_vars

\* The position motor m reports in the world w, and the worlds before and
\* after this step.
Reported(w, m) == position_getter(w, m).result

WorldBefore == WorldOf(motors, device_coordinates, device_axes, <<>>, 0)
WorldAfter == WorldOf(motors', device_coordinates', device_axes', <<>>, 0)

\* C15: an assignment to direction_reversed that reverses the direction
\* (it changes the flag and returns) negates the position the motor
\* reports and swaps switch_limit_left with switch_limit_right; the
\* assignment that reverses it back returns and restores the switch
\* handles, the reported position and the stored coordinates.
C15_ReversalNegatesAndRestores ==
    [][\A m \in DOMAIN motors :
        (/\ Called({"direction_reversed"}, m)
         /\ motor_call'.raised = "none"
         /\ motors'[m].direction_sign # motors[m].direction_sign)
        => LET back == direction_reversed_setter(WorldAfter, m, ~motor_call'.arguments[1])
           IN  /\ Reported(WorldAfter, m) = wide_times_sign(-1, Reported(WorldBefore, m))
               /\ motors'[m].switch_limit_left = motors[m].switch_limit_right
               /\ motors'[m].switch_limit_right = motors[m].switch_limit_left
               /\ back.raised = "none"
               /\ back.motors[m].direction_sign = motors[m].direction_sign
               /\ back.motors[m].switch_limit_left = motors[m].switch_limit_left
               /\ back.motors[m].switch_limit_right = motors[m].switch_limit_right
               /\ Reported(back, m) = Reported(WorldBefore, m)
               /\ back.device_coordinates = device_coordinates]_vars

\* C15 witness: the direction of a motor at rest that reports a position
\* other than 0 and has a stored coordinate other than 0 has been
\* reversed.
C15_Witness ==
    /\ motor_call.name = "direction_reversed"
    /\ motor_call.raised = "none"
    /\ motors[motor_call.motor].direction_sign = -1
    /\ motors[motor_call.motor].position_valid
    /\ motors[motor_call.motor].position # Int32(0)
    /\ device_coordinates[0][motor_call.motor] # 0

(***************************************************************************)
(* Claims on the motor union (SpecMotor).                                  *)
(***************************************************************************)
\* The handler of the union that returns in this step.
UnionCalled(names) ==
    /\ motor_call = MotorCallIdle
    /\ motor_call'.name \in names

\* The frame that writes the position of the i-th motor of the union into
\* the coordinate of the union, and the frame that moves the union there.
UnionCoordinateFrame(i, position) ==
    [command |-> SCO, type_number |-> UnionCoordinateNumber,
     bank_number |-> UnionMotors[i],
     value |-> wide_times_sign(motors[UnionMotors[i]].direction_sign, position[i]).v]

UnionMoveFrame(synchronously) ==
    [command |-> MVP, type_number |-> MVP_TYPE_COORDINATE,
     bank_number |-> bit_or(motor_numbers_mask(UnionMotors),
                            IF synchronously THEN 64 ELSE 128),
     value |-> UnionCoordinateNumber]

\* The coordinate writes of a handler that the device has answered.
CoordinateWritesDone(call_) ==
    LET writes == {i \in DOMAIN call_.frames : call_.frames[i].command = SCO}
    IN  IF call_.raised = "InternalException" /\ MotionFrames(call_.frames) = {}
            THEN Cardinality(writes) - 1
            ELSE Cardinality(writes)

\* C16: MotorUnion.move_to with a position for each motor of the union
\* writes the coordinate of each motor first (one SCO each, in the order of
\* the motors), marks every motor as moving in the ramp mode POSITION
\* next, and sends one MVP to the coordinate last, with the bit mask of
\* the motor numbers or-ed with 0x40 (synchronously) or 0x80 as bank
\* number.  If a coordinate write fails, the coordinates written before
\* keep their new values, no motor object is changed and no MVP is sent.
C16_UnionMoveToOrder ==
    [][UnionCalled({"union_move_to"}) =>
        LET frames == motor_call'.frames
            position == motor_call'.arguments[1]
            count == Len(UnionMotors)
            done == CoordinateWritesDone(motor_call')
        IN  /\ \A i \in DOMAIN frames :
                    /\ i <= count => frames[i] = UnionCoordinateFrame(i, position)
                    /\ i = count + 1 => frames[i] = UnionMoveFrame(motor_call'.arguments[3])
                    /\ i > count + 1 => frames[i].command = GAP
            /\ motor_call'.raised = "none" => Len(frames) > count
            /\ (Len(frames) > count /\ (~motor_call'.arguments[2]
                                        \/ motor_call'.raised = "InternalException"))
                => \A i \in 1 .. count :
                        /\ motors'[UnionMotors[i]].moving
                        /\ motors'[UnionMotors[i]].ramp_mode = RAMP_MODE_POSITION
                        /\ motors'[UnionMotors[i]].moving_detect = "position"
                        /\ ~motors'[UnionMotors[i]].position_valid
            /\ Len(frames) <= count
                => /\ motor_call'.raised # "none"
                   /\ motors' = motors
                   /\ \A i \in 1 .. count :
                        device_coordinates'[UnionCoordinateNumber][UnionMotors[i]] =
                            IF i <= done
                                THEN wide_times_sign(motors[UnionMotors[i]].direction_sign,
                                                     position[i]).v
                                ELSE device_coordinates[UnionCoordinateNumber][UnionMotors[i]]]_vars

\* C16 witness: the write of the coordinate of the second motor has
\* failed at the port after the coordinate of the first motor was written
\* with a new value.
C16_Witness ==
    /\ motor_call.name = "union_move_to"
    /\ motor_call.raised = "InternalException"
    /\ Len(motor_call.frames) = Len(UnionMotors)
    /\ device_coordinates[UnionCoordinateNumber][UnionMotors[1]] = motor_call.arguments[1][1].v
    /\ device_coordinates[UnionCoordinateNumber][UnionMotors[1]]
            # device_coordinates[UnionCoordinateNumber][UnionMotors[2]]

\* The reads of the position reached flag of motor m among the frames.
ReachedReads(frames, m) ==
    {i \in DOMAIN frames :
        /\ frames[i].command = GAP
        /\ frames[i].type_number = PARAMETER_POSITION_REACHED
        /\ frames[i].bank_number = m}

\* C17: when MotorUnion.move_to that waits returns, MotorUnion.moving and
\* the moving of every motor of the union are False, every motor reports
\* the position it was sent to (a device that reports the position reached
\* is at its target), and its velocity and acceleration read 0; the wait
\* has asked the device about every motor before (each has been observed
\* at its position).
C17_UnionMoveToWaits ==
    [][(/\ UnionCalled({"union_move_to"})
        /\ motor_call'.arguments[2]
        /\ motor_call'.raised = "none")
       => /\ union_moving(WorldAfter, 1).result = FALSE
          /\ union_moving(WorldAfter, 1).frames = <<>>
          /\ \A i \in 1 .. Len(UnionMotors) :
                LET m == UnionMotors[i]
                IN  /\ ~motors'[m].moving
                    /\ moving(WorldAfter, m).result = FALSE
                    /\ Reported(WorldAfter, m) = motor_call'.arguments[1][i]
                    /\ velocity_getter(WorldAfter, m).result = Float(0, 0)
                    /\ acceleration_getter(WorldAfter, m).result = Float(0, 0)
                    /\ ReachedReads(motor_call'.frames, m) # {}]_vars

\* C17 witness: MotorUnion.move_to has waited and returned after the wait
\* found the second motor moving once, and the motors are at two
\* different positions.
C17_Witness ==
    /\ motor_call.name = "union_move_to"
    /\ motor_call.arguments[2]
    /\ motor_call.raised = "none"
    /\ Cardinality(ReachedReads(motor_call.frames, UnionMotors[2])) = 2
    /\ device_axes[UnionMotors[1]].position_actual = INT32_MINIMUM
    /\ device_axes[UnionMotors[2]].position_actual = INT32_MAXIMUM

\* Motor numbers that are empty, outside [0, motor_count) or repeated, and
\* a coordinate number outside [0, coordinate_count).
MotorNumbersInvalid(motor_numbers) ==
    \/ motor_numbers = <<>>
    \/ \E i \in DOMAIN motor_numbers : motor_numbers[i] < 0 \/ motor_numbers[i] >= MOTOR_COUNT
    \/ \E i, j \in DOMAIN motor_numbers : i # j /\ motor_numbers[i] = motor_numbers[j]

CoordinateNumberInvalid(coordinate_number) ==
    coordinate_number < 0 \/ coordinate_number >= COORDINATE_COUNT

\* C18: the construction of a MotorUnion raises ValueError and exchanges
\* no frame when the motor numbers are empty, when one is outside
\* [0, motor_count), when one is repeated, or when the coordinate number is
\* outside [0, coordinate_count).
C18_UnionConstructionRejects ==
    (/\ motor_call.name = "union_init"
     /\ \/ MotorNumbersInvalid(motor_call.arguments[1])
        \/ CoordinateNumberInvalid(motor_call.arguments[2]))
    => (motor_call.raised = "ValueError" /\ motor_call.frames = <<>>)

\* The grid of the currents: floor(maximum * k / 32) for k in 1 .. 32, and
\* the largest point of the grid that is at most c.
CurrentGrid == {(MOTOR_CURRENT_MAXIMUM * k) \div 32 : k \in 1 .. 32}

CurrentGridBelow(c) ==
    CHOOSE g \in CurrentGrid : g <= c /\ \A h \in CurrentGrid : h <= c => h <= g

\* C19: for every integer c from motor_current_minimum to
\* motor_current_maximum, current_moving reads, after it was set to c, the
\* largest point of the grid floor(maximum * k / 32), k in 1 .. 32, that is
\* at most c: it does not exceed c, a point of the grid reads back as
\* itself, and the conversion of the value read gives the value read
\* again.  (current_standby has the statements of current_moving with
\* the standby parameter and goes through the same two conversions.)
C19_CurrentRoundTrip ==
    (motor_call.name = "current_moving" /\ motor_call.raised = "none")
    => LET c == motor_call.arguments[1]
           read == motors[motor_call.motor].current_moving
       IN  /\ c \in MOTOR_CURRENT_MINIMUM .. MOTOR_CURRENT_MAXIMUM
           /\ read = CurrentGridBelow(c)
           /\ read <= c
           /\ c \in CurrentGrid => read = c
           /\ motor_current_external(motor_current_internal(read)) = read
           /\ motors[motor_call.motor].current_moving_internal = motor_current_internal(c)

\* C19 witness: current_moving has been set to a value one below a point
\* of the grid, has sent the portion to the device and reads the point
\* of the grid before.
C19_Witness ==
    /\ motor_call.name = "current_moving"
    /\ motor_call.raised = "none"
    /\ motor_call.frames # <<>>
    /\ motor_call.arguments[1] + 1 \in CurrentGrid
    /\ motor_call.arguments[1] \notin CurrentGrid
    /\ motors[motor_call.motor].current_moving < motor_call.arguments[1]

\* C20: at every microstep resolution, the setter velocity_moving of a
\* motor that is not moving raises ValueError for a value below
\* velocity_minimum and for a value above velocity_maximum, and leaves
\* the velocity as it was; for velocity_minimum and for velocity_maximum
\* it returns, and velocity_moving reads exactly that bound afterwards.
C20_VelocityBounds ==
    [][\A m \in DOMAIN motors :
        (Called({"velocity_moving"}, m) /\ ~motors'[m].moving)
        => LET value == motor_call'.arguments[1]
               minimum == motors[m].velocity_minimum
               maximum == motors[m].velocity_maximum
           IN  /\ motors[m].microstep_resolution \in MICROSTEP_RESOLUTIONS
               /\ motors'[m].velocity_minimum = minimum
               /\ motors'[m].velocity_maximum = maximum
               /\ (float_less(value, minimum) \/ float_less(maximum, value))
                    => /\ motor_call'.raised = "ValueError"
                       /\ ParameterWrites(motor_call'.frames) = {}
                       /\ motors'[m].velocity_moving = motors[m].velocity_moving
               /\ value \in {minimum, maximum}
                    => /\ motor_call'.raised = "none"
                       /\ motors'[m].velocity_moving = value]_vars

\* C20 witness: at the finest microstep resolution the velocity of a motor
\* at rest has been set to velocity_maximum, which was not its velocity
\* before; the device has been written to and the velocity reads the
\* maximum.
C20_Witness ==
    /\ motor_call.name = "velocity_moving"
    /\ motor_call.raised = "none"
    /\ ParameterWrites(motor_call.frames) # {}
    /\ ~motors[motor_call.motor].moving
    /\ motors[motor_call.motor].microstep_resolution = 256
    /\ motor_call.arguments[1] = motors[motor_call.motor].velocity_maximum
    /\ motors[motor_call.motor].velocity_moving = motors[motor_call.motor].velocity_maximum

(***************************************************************************)
(* Claims on the velocity, the acceleration and the cached parameters of   *)
(* one motor (SpecDrive).                                                  *)
(***************************************************************************)
\* C21: an assignment of a value of MICROSTEP_RESOLUTIONS to
\* microstep_resolution on a motor that is not moving leaves
\* velocity_moving as it was when it lies within the new velocity_minimum
\* and velocity_maximum, and sets it to the new bound it lies beyond
\* otherwise.
C21_MicrostepKeepsVelocity ==
    [][\A m \in DOMAIN motors :
        (/\ Called({"microstep_resolution"}, m)
         /\ motor_call'.raised = "none"
         /\ ~motors'[m].moving)
        => LET previous == motors[m].velocity_moving
               minimum == motors'[m].velocity_minimum
               maximum == motors'[m].velocity_maximum
           IN  motors'[m].velocity_moving =
                    IF float_less(previous, minimum) THEN minimum
                    ELSE IF float_less(maximum, previous) THEN maximum
                    ELSE previous]_vars

\* The axis parameters the device holds for a motor.
DeviceHeld(m) == device_axes[m].parameters

\* C22: after every successful assignment to velocity_moving or
\* microstep_resolution, acceleration_minimum and acceleration_maximum are
\* the bounds of the motor's pulse divisor exponent and microstep
\* resolution, the moving acceleration lies within them, and the ramp
\* divisor exponent and the acceleration portion the device holds are the
\* ones the cached moving acceleration is computed from.
C22_AccelerationFollows ==
    \A m \in DOMAIN motors :
        (/\ motor_call.name \in {"velocity_moving", "microstep_resolution"}
         /\ motor_call.motor = m
         /\ motor_call.raised = "none")
        => LET motor == motors[m]
               exponent == DeviceHeld(m)[PARAMETER_PULSE_DIVISOR_EXPONENT]
               resolution == 2 ^ DeviceHeld(m)[PARAMETER_MICROSTEP_RESOLUTION]
               minimum == acceleration_external(exponent,
                                min(RAMP_DIVISOR_EXPONENT_MAXIMUM, exponent + 1),
                                1, resolution)
               maximum == acceleration_external(exponent, max(0, exponent - 1),
                                ACCELERATION_PORTIONS - 1, resolution)
           IN  /\ motor.pulse_divisor_exponent = exponent
               /\ motor.microstep_resolution = resolution
               /\ motor.acceleration_minimum = minimum
               /\ motor.acceleration_maximum = maximum
               /\ ~float_less(motor.acceleration_moving, minimum)
               /\ ~float_less(maximum, motor.acceleration_moving)
               /\ motor.acceleration_moving =
                    acceleration_external(exponent,
                        DeviceHeld(m)[PARAMETER_RAMP_DIVISOR_EXPONENT],
                        DeviceHeld(m)[PARAMETER_ACCELERATION_MOVING], resolution)

\* An assignment to velocity_moving has written the pulse divisor exponent
\* and then the ramp divisor exponent and the acceleration portion.
C22_Witness ==
    /\ motor_call.name = "velocity_moving"
    /\ motor_call.raised = "none"
    /\ \E i, j, k \in DOMAIN motor_call.frames :
        /\ i < j
        /\ i < k
        /\ motor_call.frames[i].type_number = PARAMETER_PULSE_DIVISOR_EXPONENT
        /\ motor_call.frames[j].type_number = PARAMETER_RAMP_DIVISOR_EXPONENT
        /\ motor_call.frames[k].type_number = PARAMETER_ACCELERATION_MOVING

(* Claims on the detection of the end of a move, on the position and on   *)
(* the cached parameters of one motor (SpecAxis, SpecDrive).               *)
\* C23: with direction_reversed False or True, the acceleration_moving
\* getter returns a value that lies within acceleration_minimum and
\* acceleration_maximum, and the assignment of the value it has returned to
\* acceleration_moving is accepted on a motor that is not moving.
C23_AccelerationReadBack ==
    \A m \in DOMAIN motors :
        (/\ motor_call.name = "acceleration_moving_get"
         /\ motor_call.motor = m
         /\ motor_call.raised = "none")
        => /\ ~float_less(motor_call.result, motors[m].acceleration_minimum)
           /\ ~float_less(motors[m].acceleration_maximum, motor_call.result)
           /\ ~motors[m].moving
                => acceleration_moving_setter(World(<<>>), m, motor_call.result).raised
                        = "none"

\* C24: for a coordinate number within the coordinate count and a vector of
\* valid positions with one entry for each motor, the assignment
\* module.coordinates[number] = positions stores positions[i] in the
\* coordinate of motor i and a following read of module.coordinates[number]
\* returns the vector; with a number outside the range no frame is
\* exchanged.
C24_ModuleCoordinateStored ==
    motor_call.name = "module_coordinates"
    => LET number == motor_call.arguments[1]
           position == motor_call.arguments[2]
       IN  IF number \notin 0 .. COORDINATE_COUNT - 1
               THEN motor_call.frames = <<>>
           ELSE (/\ Len(position) = Cardinality(DOMAIN motors)
                 /\ \A i \in DOMAIN position : position_verify(position[i]))
                => /\ motor_call.raised = "none"
                   /\ \A i \in DOMAIN position :
                        device_coordinates[number][i - 1] = position[i].v
                   /\ module_coordinates_getitem(World(<<>>), number).result
                        = [i \in DOMAIN position |-> position[i].v]

\* The read of an axis parameter of a motor, as a frame.
ParameterRead(parameter, m) ==
    [command |-> GAP, type_number |-> parameter, bank_number |-> m, value |-> 0]

\* moving is read on a motor that is flagged moving and whose detector is
\* the given one, and returns.
MovingRead(m, detector) ==
    /\ Called({"moving"}, m)
    /\ motors[m].moving
    /\ motors[m].moving_detect = detector
    /\ motor_call'.raised = "none"

\* C25: after a move in the position ramp mode, each read of moving on the
\* motor flagged moving polls the position reached flag of the device once;
\* it returns True and keeps polling while the flag reads false, it returns
\* False when the flag reads true, and from then on moving returns False
\* without a read of the device until a call that starts a move.
C25_PositionDetector ==
    [][\A m \in DOMAIN motors :
        /\ MovingRead(m, "position")
            => /\ motor_call'.frames = <<ParameterRead(PARAMETER_POSITION_REACHED, m)>>
               /\ Len(motor_call'.replies) = 1
               /\ motor_call'.result = (motor_call'.replies[1] = 0)
               /\ motor_call'.replies[1] = 0
                    => (motors'[m].moving /\ motors'[m].moving_detect = "position")
               /\ motor_call'.replies[1] # 0 => ~motors'[m].moving
        /\ (Called({"moving"}, m) /\ ~motors[m].moving)
            => (motor_call'.result = FALSE /\ motor_call'.frames = <<>>
                    /\ ~motors'[m].moving)
        /\ (~motors[m].moving /\ motors'[m].moving) => Called(MoveNames, m)]_vars

\* C25 witness: a read of moving has found the position reached flag set
\* after a move to a position other than 0, which the motor now has.
C25_Witness ==
    /\ motor_call.name = "moving"
    /\ motor_call.frames = <<ParameterRead(PARAMETER_POSITION_REACHED, motor_call.motor)>>
    /\ motor_call.replies = <<1>>
    /\ motor_call.result = FALSE
    /\ motors[motor_call.motor].ramp_mode = RAMP_MODE_POSITION
    /\ device_axes[motor_call.motor].position_actual # 0
    /\ device_axes[motor_call.motor].position_actual
            = device_axes[motor_call.motor].position_target

\* C26: after a move in the velocity ramp mode, a read of moving polls the
\* target velocity and returns True while it is not 0; once the target
\* velocity has been read as 0 the detector polls the actual velocity only
\* (in the same call first), returns True while it is not 0 and False when
\* it is 0: moving returns False only after a read of the target velocity
\* as 0 and a read of the actual velocity as 0.
C26_VelocityDetector ==
    [][\A m \in DOMAIN motors :
        /\ MovingRead(m, "velocity")
            => /\ motor_call'.frames[1] = ParameterRead(PARAMETER_VELOCITY_TARGET, m)
               /\ IF motor_call'.replies[1] # 0
                    THEN /\ Len(motor_call'.frames) = 1
                         /\ motor_call'.result = TRUE
                         /\ motors'[m].moving
                         /\ motors'[m].moving_detect = "velocity"
                    ELSE /\ motor_call'.frames =
                                <<ParameterRead(PARAMETER_VELOCITY_TARGET, m),
                                  ParameterRead(PARAMETER_VELOCITY_ACTUAL, m)>>
                         /\ motor_call'.result = (motor_call'.replies[2] # 0)
                         /\ motors'[m].moving = (motor_call'.replies[2] # 0)
                         /\ motors'[m].moving => motors'[m].moving_detect = "velocity_2"
        /\ MovingRead(m, "velocity_2")
            => /\ motor_call'.frames = <<ParameterRead(PARAMETER_VELOCITY_ACTUAL, m)>>
               /\ motor_call'.result = (motor_call'.replies[1] # 0)
               /\ motors'[m].moving = (motor_call'.replies[1] # 0)
               /\ motors'[m].moving => motors'[m].moving_detect = "velocity_2"
        /\ (motors[m].moving_detect # "velocity_2" /\ motors'[m].moving_detect = "velocity_2")
            => /\ motors[m].moving_detect = "velocity"
               /\ \E i \in DOMAIN motor_call'.replies :
                    /\ motor_call'.frames[i] = ParameterRead(PARAMETER_VELOCITY_TARGET, m)
                    /\ motor_call'.replies[i] = 0]_vars

\* C26 witness: a read of moving polls the actual velocity only, reads it
\* as 0 and returns False on a motor in the velocity ramp mode.
C26_Witness ==
    /\ motor_call.name = "moving"
    /\ motor_call.frames = <<ParameterRead(PARAMETER_VELOCITY_ACTUAL, motor_call.motor)>>
    /\ motor_call.replies = <<0>>
    /\ motor_call.result = FALSE
    /\ motors[motor_call.motor].ramp_mode = RAMP_MODE_VELOCITY
    /\ ~motors[motor_call.motor].moving

\* The stop command of a motor, as a frame, and the frames of a wait that
\* has polled the velocity detector from the given first read on until it
\* has read the actual velocity as 0.
StopFrame(m) == [command |-> MST, type_number |-> 0, bank_number |-> m, value |-> 0]

WaitedFrom(frames, replies, m, first) ==
    LET target == ParameterRead(PARAMETER_VELOCITY_TARGET, m)
        actual == ParameterRead(PARAMETER_VELOCITY_ACTUAL, m)
        n == Len(frames)
    IN  /\ n >= 3
        /\ Len(replies) = n
        /\ frames[2] = first
        /\ frames[n] = actual
        /\ replies[n] = 0
        /\ \A i \in 2 .. n - 1 :
            \/ /\ frames[i] = target
               /\ frames[i + 1] = (IF replies[i] = 0 THEN actual ELSE target)
            \/ /\ frames[i] = actual
               /\ replies[i] # 0
               /\ frames[i + 1] = actual

\* stop() is called on a motor flagged moving and returns.
Stopped(m) ==
    /\ Called({"stop"}, m)
    /\ motors[m].moving
    /\ motor_call'.raised = "none"

\* C27 (amended): stop() on a motor flagged moving sets the ramp mode to
\* VELOCITY, restarts the velocity detector from its first phase (the next
\* poll of moving reads the target velocity, and the actual velocity once
\* the target velocity has read 0), sends the MST command, and with
\* wait_while_moving=True returns only once the motor is detected as not
\* moving.
C27_StopRestartsDetector ==
    [][\A m \in DOMAIN motors :
        Stopped(m)
        => /\ motors'[m].ramp_mode = RAMP_MODE_VELOCITY
           /\ motor_call'.frames[1] = StopFrame(m)
           /\ IF motor_call'.arguments[1]
                THEN /\ ~motors'[m].moving
                     /\ WaitedFrom(motor_call'.frames, motor_call'.replies, m,
                                   ParameterRead(PARAMETER_VELOCITY_TARGET, m))
                ELSE /\ motor_call'.frames = <<StopFrame(m)>>
                     /\ motors'[m].moving
                     /\ motors'[m].moving_detect = "velocity"]_vars

\* C27 as stated: stop() restarts the velocity detector from its second
\* phase, so that the next poll of moving reads the actual velocity and not
\* the target velocity.
C27_StopFromSecondPhase ==
    [][\A m \in DOMAIN motors :
        Stopped(m)
        => /\ motors'[m].ramp_mode = RAMP_MODE_VELOCITY
           /\ motor_call'.frames[1] = StopFrame(m)
           /\ IF motor_call'.arguments[1]
                THEN /\ ~motors'[m].moving
                     /\ WaitedFrom(motor_call'.frames, motor_call'.replies, m,
                                   ParameterRead(PARAMETER_VELOCITY_ACTUAL, m))
                ELSE /\ motor_call'.frames = <<StopFrame(m)>>
                     /\ motors'[m].moving
                     /\ motors'[m].moving_detect = "velocity_2"]_vars

\* C27 witness: stop() has waited on a motor that was moving in the
\* position ramp mode, has found it moving at its first poll and has
\* returned with the motor at rest in the velocity ramp mode.
C27_Witness ==
    /\ motor_call.name = "stop"
    /\ motor_call.arguments = <<TRUE>>
    /\ motor_call.raised = "none"
    /\ Len(motor_call.frames) = 4
    /\ motor_call.frames[1] = StopFrame(motor_call.motor)
    /\ motor_call.replies[2] # 0
    /\ ~motors[motor_call.motor].moving
    /\ motors[motor_call.motor].ramp_mode = RAMP_MODE_VELOCITY
    /\ device_axes[motor_call.motor].position_target # 0

\* C28: whenever an assignment of the position writes the actual position
\* of the device, the device is in the velocity ramp mode at that moment.
C28_PositionWrittenInVelocityMode ==
    motor_call.name = "position"
    => \A i \in DOMAIN motor_call.position_written_in :
            motor_call.position_written_in[i] = RAMP_MODE_VELOCITY

\* The writes of an axis parameter of a motor among the frames of a
\* handler, and the value the device holds of the parameter when the write
\* at an index is sent: the one of the last write before it, or the one it
\* held at the call.
WritesOf(frames, parameter, m) ==
    {i \in DOMAIN frames :
        /\ frames[i].command = SAP
        /\ frames[i].type_number = parameter
        /\ frames[i].bank_number = m}

HeldAt(frames, parameter, m, i) ==
    LET before == {j \in WritesOf(frames, parameter, m) : j < i}
    IN  IF before = {} THEN DeviceHeld(m)[parameter]
        ELSE frames[CHOOSE j \in before : \A k \in before : k <= j].value

\* A handler is called in this step.
CalledAny == motor_call = MotorCallIdle /\ motor_call'.name # "none"

\* C29: a write of the pulse divisor exponent, of the ramp divisor exponent
\* or of the position is sent only when the cached value is invalid or is
\* not the new value; no write of the pulse divisor exponent is sent with
\* the value the device holds already; and a handler that sends no write of
\* the pulse divisor exponent, or no write of the position it is to set,
\* leaves the cached position and its validity as they are.
C29_WritesOnlyWhenChanged ==
    [][\A m \in DOMAIN motors :
        LET frames == motor_call'.frames
            pulse == WritesOf(frames, PARAMETER_PULSE_DIVISOR_EXPONENT, m)
            ramp == WritesOf(frames, PARAMETER_RAMP_DIVISOR_EXPONENT, m)
            position == WritesOf(frames, PARAMETER_POSITION_ACTUAL, m)
            first(writes) == CHOOSE i \in writes : \A j \in writes : i <= j
            kept == /\ motors'[m].position = motors[m].position
                    /\ motors'[m].position_valid = motors[m].position_valid
        IN  CalledAny
            => /\ pulse # {}
                    => \/ ~motors[m].pulse_divisor_exponent_valid
                       \/ frames[first(pulse)].value # motors[m].pulse_divisor_exponent
               /\ ramp # {}
                    => \/ ~motors[m].ramp_divisor_exponent_valid
                       \/ frames[first(ramp)].value # motors[m].ramp_divisor_exponent
               /\ (position # {} /\ motor_call'.name = "position")
                    => \/ ~motors[m].position_valid
                       \/ Int32(frames[first(position)].value)
                            # wide_times_sign(motors[m].direction_sign, motors[m].position)
               /\ \A i \in pulse :
                    frames[i].value # HeldAt(frames, PARAMETER_PULSE_DIVISOR_EXPONENT, m, i)
               /\ (/\ motor_call'.motor = m
                   /\ motor_call'.name \in {"velocity_moving", "microstep_resolution"}
                   /\ motor_call'.raised = "none"
                   /\ pulse = {})
                    => kept
               /\ (/\ motor_call'.motor = m
                   /\ motor_call'.name = "position"
                   /\ motor_call'.raised = "none"
                   /\ position = {})
                    => kept]_vars

\* C30: every cached value of a motor whose validity flag is set is the
\* value the device holds: the pulse divisor exponent, the ramp divisor
\* exponent, and the position times the direction sign.
C30_CachesHeld ==
    \A m \in DOMAIN motors :
        /\ motors[m].pulse_divisor_exponent_valid
            => motors[m].pulse_divisor_exponent
                    = DeviceHeld(m)[PARAMETER_PULSE_DIVISOR_EXPONENT]
        /\ motors[m].ramp_divisor_exponent_valid
            => motors[m].ramp_divisor_exponent
                    = DeviceHeld(m)[PARAMETER_RAMP_DIVISOR_EXPONENT]
        /\ motors[m].position_valid
            => wide_times_sign(motors[m].direction_sign, motors[m].position)
                    = Int32(device_axes[m].position_actual)

\* C31: assigning direction_reversed the opposite of its current value
\* negates, on the device, the coordinate of that motor in every slot and
\* changes the coordinate of no other motor; assigning its current value
\* sends no command and changes nothing.  (A call during which the port
\* fails is left aside.)
C31_ReversalNegatesCoordinates ==
    [][(/\ motor_call = MotorCallIdle
        /\ motor_call'.name = "direction_reversed"
        /\ motor_call'.raised # "InternalException")
        => LET m == motor_call'.motor
           IN  IF motor_call'.arguments[1] # (motors[m].direction_sign < 0)
                THEN \A n \in CoordinateNumbers, k \in DOMAIN motors :
                        Int32(device_coordinates'[n][k]) =
                            IF k = m
                                THEN wide_times_sign(-1, Int32(device_coordinates[n][k]))
                                ELSE Int32(device_coordinates[n][k])
                ELSE /\ motor_call'.frames = <<>>
                     /\ UNCHANGED <<motors, device_coordinates, device_axes>>]_vars

(***************************************************************************)
(* Claims on the conversions of velocities and accelerations (SpecConvert). *)
(***************************************************************************)
\* The velocity_moving setter has returned for a velocity that is not 0.
VelocityConverted(m) ==
    /\ motor_call.name = "velocity_moving"
    /\ motor_call.motor = m
    /\ motor_call.raised = "none"
    /\ ~motors[m].moving
    /\ motor_call.arguments[1].m # 0

\* __VELOCITY_DIVIDEND / (microstep_resolution * 2^exponent)
VelocityOfDivisor(m, exponent) ==
    Float(VELOCITY_DIVIDEND.m,
          VELOCITY_DIVIDEND.x - exponent - (bit_length(motors[m].microstep_resolution) - 1))

\* The portion is floored, and the velocity read back is the velocity of
\* the exponent and the portion and does not exceed the requested one.
VelocityPortionFloored(m) ==
    LET value == motor_call.arguments[1]
        motor == motors[m]
        below == velocity_external(motor.pulse_divisor_exponent,
                                   motor.velocity_moving_internal,
                                   motor.microstep_resolution)
        above == velocity_external(motor.pulse_divisor_exponent,
                                   motor.velocity_moving_internal + 1,
                                   motor.microstep_resolution)
    IN  /\ ~float_less(value, below)
        /\ float_less(value, above)
        /\ motor.velocity_moving = below

\* C32 as stated: for every velocity that is not 0 within velocity_minimum
\* and velocity_maximum and every microstep resolution, the conversion
\* takes the smallest pulse divisor exponent (at most 13) whose greatest
\* velocity is at least the requested value and floors the portion, and
\* the velocity read back does not exceed the requested value.
C32_SmallestExponentAchieving ==
    \A m \in DOMAIN motors :
        VelocityConverted(m)
        => LET value == motor_call.arguments[1]
               greatest(exponent) ==
                    velocity_external(exponent, VELOCITY_PORTIONS - 1,
                                      motors[m].microstep_resolution)
               chosen == motors[m].pulse_divisor_exponent
           IN  /\ chosen \in 0 .. PULSE_DIVISOR_EXPONENT_MAXIMUM
               /\ ~float_less(greatest(chosen), value)
               /\ \A exponent \in 0 .. (chosen - 1) : float_less(greatest(exponent), value)
               /\ VelocityPortionFloored(m)

\* C32 amended: the conversion takes the greatest pulse divisor exponent
\* (at most 13) for which 500000 / (microstep_resolution * 2^exponent) is
\* at least the requested value and floors the portion of the greatest
\* velocity of that exponent, and the velocity read back does not exceed
\* the requested value.
C32_GreatestExponentOfDivisor ==
    \A m \in DOMAIN motors :
        VelocityConverted(m)
        => LET value == motor_call.arguments[1]
               chosen == motors[m].pulse_divisor_exponent
           IN  /\ chosen \in 0 .. PULSE_DIVISOR_EXPONENT_MAXIMUM
               /\ ~float_less(VelocityOfDivisor(m, chosen), value)
               /\ chosen < PULSE_DIVISOR_EXPONENT_MAXIMUM
                    => float_less(VelocityOfDivisor(m, chosen + 1), value)
               /\ VelocityPortionFloored(m)

\* C32 witness: a velocity between the greatest velocity of a pulse divisor
\* exponent and the next greater one has been set at the finest microstep
\* resolution: the exponent and the portion have been written.
C32_Witness ==
    /\ VelocityConverted(0)
    /\ motors[0].microstep_resolution = 256
    /\ motors[0].pulse_divisor_exponent = 1
    /\ float_less(motors[0].velocity_moving, motor_call.arguments[1])
    /\ \E i \in DOMAIN motor_call.frames :
        /\ motor_call.frames[i].command = SAP
        /\ motor_call.frames[i].type_number = PARAMETER_PULSE_DIVISOR_EXPONENT
    /\ \E i \in DOMAIN motor_call.frames :
        /\ motor_call.frames[i].command = SAP
        /\ motor_call.frames[i].type_number = PARAMETER_VELOCITY_MOVING

\* C33: for every value the velocity_moving setter accepts, the values
\* of 500000 / (microstep_resolution * 2^k) included, the pulse divisor
\* exponent written to the device is within 0 and 13 and the velocity
\* portion within 0 and 2047; for every value the acceleration_moving
\* setter accepts, the ramp divisor exponent written is within 0 and 13
\* and the acceleration portion within 0 and 2047.
C33_PortionsWithinRange ==
    \A m \in DOMAIN motors :
        (motor_call.name \in {"velocity_moving", "acceleration_moving"}
                /\ motor_call.motor = m /\ motor_call.raised = "none")
        => /\ DeviceHeld(m)[PARAMETER_PULSE_DIVISOR_EXPONENT]
                    \in 0 .. PULSE_DIVISOR_EXPONENT_MAXIMUM
           /\ DeviceHeld(m)[PARAMETER_VELOCITY_MOVING] \in 0 .. (VELOCITY_PORTIONS - 1)
           /\ DeviceHeld(m)[PARAMETER_RAMP_DIVISOR_EXPONENT]
                    \in 0 .. RAMP_DIVISOR_EXPONENT_MAXIMUM
           /\ DeviceHeld(m)[PARAMETER_ACCELERATION_MOVING]
                    \in 0 .. (ACCELERATION_PORTIONS - 1)

(***************************************************************************)
(* Claims on the cached position of the motors (SpecPosition).             *)
(***************************************************************************)
\* The motors whose actual position the handler called has written.
PositionWritten ==
    {motor_call.frames[i].bank_number : i \in
        {j \in DOMAIN motor_call.frames :
            /\ motor_call.frames[j].command = SAP
            /\ motor_call.frames[j].type_number = PARAMETER_POSITION_ACTUAL}}

\* C34: in every state of a motor one caller uses, a valid cached position
\* implies that the motor is marked as not moving: no handler caches the
\* position of a motor marked as moving, and an assignment to the
\* position of a motor or of the union writes no position of a motor that
\* is marked as moving and raises StateException for it.
C34_CachedPositionAtRest ==
    \A m \in DOMAIN motors :
        /\ motors[m].position_valid => ~motors[m].moving
        /\ m \in PositionWritten => ~motors[m].moving
        /\ (motor_call.name = "position" /\ motor_call.motor = m /\ motors[m].moving)
            => motor_call.raised = "StateException"
        /\ (motor_call.name = "union_position" /\ motors[m].moving)
            => motor_call.raised = "StateException"

\* C34 witness: the position of the union has been assigned while its
\* motors were at rest: the position of each motor has been written and is
\* cached.
C34_Witness ==
    /\ motor_call.name = "union_position"
    /\ motor_call.raised = "none"
    /\ PositionWritten = {UnionMotors[i] : i \in DOMAIN UnionMotors}
    /\ \A m \in DOMAIN motors : motors[m].position_valid /\ ~motors[m].moving

(***************************************************************************)
(* Claims on two threads sharing one motor (SpecShared, FairSpecShared).   *)
(***************************************************************************)
\* The device carries out a motion command: it rotates to a target velocity
\* or has not reached the target position of a move.
DeviceInMotion ==
    LET parameters == device_axes[0].parameters
    IN  \/ /\ parameters[PARAMETER_RAMP_MODE] = RAMP_MODE_VELOCITY
           /\ parameters[PARAMETER_VELOCITY_TARGET] # 0
        \/ /\ parameters[PARAMETER_RAMP_MODE] = RAMP_MODE_POSITION
           /\ parameters[PARAMETER_POSITION_REACHED] = 0

\* C35: while one thread polls moving and another one starts a move, the
\* motor is never left flagged as not moving once the motion command has
\* been sent, and a stop that checks the flag during the motion goes on to
\* transmit MST.
C35_FlaggedMovingInMotion ==
    [][/\ DeviceInMotion' => motors'[0].moving
       /\ \A t \in Callers :
            (pc[t] = "stop" /\ pc'[t] # "stop" /\ DeviceInMotion)
                => pc'[t] = "stop_ramp_mode"]_vars

\* C36: a command of one thread that runs while another thread sets
\* heartbeat_timeout to 0 completes: the reset of the heartbeat event after
\* its exchange never fails because the event has been removed meanwhile.
C36_EventResetNeverFails ==
    \A t \in Callers : op[t] = "command" => raised[t] # "AttributeError"

\* C37: a protocol error (checksum of the request or of the reply, address,
\* internal) in an exchange of the heartbeat thread does not end the
\* thread: it goes on with its loop while the timeout is not zero.
C37_HeartbeatSurvivesProtocolError ==
    raised[HeartbeatThread] \in
            {"ChecksumRequestException", "ChecksumReplyException",
             "AddressException", "InternalException"}
        => pc[HeartbeatThread] # "dead"

\* C38: for every position (and distance) within the limits, and for both
\* directions, move_to, move_by, the position setter and the assignment of
\* a coordinate of the motor transmit a value that fits the signed 32-bit
\* value field of the frame: none of them fails with an OverflowError.
C38_TransmittedValueFits ==
    [][(/\ motor_call = MotorCallIdle
        /\ motor_call'.name \in {"move_to", "move_by", "position", "coordinates"}
        /\ position_verify(motor_call'.arguments[
                IF motor_call'.name = "coordinates" THEN 2 ELSE 1]))
        => motor_call'.raised # "OverflowError"]_vars

(***************************************************************************)
(* Claims on the reversed direction of a motor (SpecAxis).                 *)
(***************************************************************************)
\* The motor of the other direction in the same place: the direction and
\* the limit switches are exchanged, the cached position is negated.
mirror_motor(motor) ==
    [motor EXCEPT !.direction_sign = -motor.direction_sign,
                  !.position = wide_times_sign(-1, motor.position),
                  !.switch_limit_right = motor.switch_limit_left,
                  !.switch_limit_left = motor.switch_limit_right]

\* The world of a handler called on the mirror image of motor m, on the
\* same device with the same answers.
WorldMirrored(answers, m) ==
    WorldOf([motors EXCEPT ![m] = mirror_motor(motors[m])],
            device_coordinates, device_axes, answers, 0)

\* The outcome reversed of a handler on a motor is the mirror image of
\* the outcome normal of its mirrored call: the same frames, replies and
\* exception, the same device, the motor the mirror image of the other,
\* and the value returned the same (moving) or negated (a position).
mirrors(reversed, normal, m, result_sign) ==
    \/ reversed.starved /\ normal.starved
    \/ /\ ~reversed.starved /\ ~normal.starved
       /\ reversed.frames = normal.frames
       /\ reversed.replies = normal.replies
       /\ reversed.raised = normal.raised
       /\ reversed.device_axes = normal.device_axes
       /\ reversed.device_coordinates = normal.device_coordinates
       /\ reversed.motors[m] = mirror_motor(normal.motors[m])
       /\ reversed.raised = "none" =>
            CASE result_sign = 1 -> reversed.result = normal.result
              [] result_sign = -1 -> reversed.result = wide_times_sign(-1, normal.result)
              [] OTHER -> reversed.result = Float(-normal.result.m, normal.result.x)

\* C39: a motor with reversed direction is the mirror image of a motor with
\* normal direction: called with a position, a distance or a coordinate
\* value within the limits it exchanges the frames the normal motor
\* exchanges for the negated value (and for move_left in place of
\* move_right), and for the same replies of the device it reports the
\* negated position and velocity and the same moving.
C39_ReversedMirrorsNormal ==
    \A m \in DOMAIN motors :
        (motor_call = MotorCallIdle /\ motors[m].direction_sign < 0) =>
            /\ \A answers \in Answers(2) :
                /\ mirrors(moving(World(answers), m),
                           moving(WorldMirrored(answers, m), m), m, 1)
                /\ \A value \in PositionsValid :
                    mirrors(position_setter(World(answers), m, value),
                            position_setter(WorldMirrored(answers, m), m,
                                            wide_times_sign(-1, value)), m, 1)
            /\ mirrors(position_getter(World(<<>>), m),
                       position_getter(WorldMirrored(<<>>, m), m), m, -1)
            /\ \A answers \in Answers(1) :
                mirrors(velocity_getter(World(answers), m),
                        velocity_getter(WorldMirrored(answers, m), m), m, 0)
            /\ \A wait \in BOOLEAN :
               \A answers \in (IF wait THEN Answers(MaxPolls) ELSE {<<>>}) :
                /\ \A right \in BOOLEAN :
                    mirrors(move_rotate(World(answers), m, right, wait),
                            move_rotate(WorldMirrored(answers, m), m, ~right, wait), m, 1)
                /\ \A position \in PositionsValid :
                    /\ mirrors(move_to(World(answers), m, position, wait),
                               move_to(WorldMirrored(answers, m), m,
                                       wide_times_sign(-1, position), wait), m, 1)
                    /\ mirrors(move_by(World(answers), m, position, wait),
                               move_by(WorldMirrored(answers, m), m,
                                       wide_times_sign(-1, position), wait), m, 1)
                /\ \A number \in CoordinateNumbers :
                    mirrors(move_to_coordinate(World(answers), m, number, wait),
                            move_to_coordinate(WorldMirrored(answers, m), m, number, wait),
                            m, 1)
                /\ mirrors(stop(World(answers), m, wait),
                           stop(WorldMirrored(answers, m), m, wait), m, 1)
            /\ \A number \in CoordinateNumbers, position \in PositionsValid :
                mirrors(coordinates_setitem(World(<<>>), m, number, position),
                        coordinates_setitem(WorldMirrored(<<>>, m), m, number,
                                            wide_times_sign(-1, position)), m, 1)

\* Thread t is in the loop of wait_while_moving: it has been called with
\* wait_while_moving and polls Motor.moving.
Waits(t) ==
    /\ arg[t] = 1
    /\ op[t] \in {"move_right", "move_to", "stop", "wait_while_moving"}
    /\ pc[t] \in {"moving", "moving_detect", "detect_position", "detect_velocity",
                  "detect_velocity_phase", "detect_velocity_2", "detected_moving",
                  "detected_moving_detect"}

\* The device reports to the detector of the motor that the motion has
\* ended: position reached, or the target and the actual velocity zero.
DeviceReportsRest ==
    LET parameters == device_axes[0].parameters
    IN  IF motors[0].moving_detect = "position"
            THEN parameters[PARAMETER_POSITION_REACHED] = 1
            ELSE /\ parameters[PARAMETER_VELOCITY_TARGET] = 0
                 /\ parameters[PARAMETER_VELOCITY_ACTUAL] = 0

\* The device has been stopped: it is in the velocity ramp mode with the
\* target velocity zero.
DeviceStopped ==
    /\ device_axes[0].parameters[PARAMETER_RAMP_MODE] = RAMP_MODE_VELOCITY
    /\ device_axes[0].parameters[PARAMETER_VELOCITY_TARGET] = 0

\* C40: wait_while_moving returns provided the device comes to report the
\* end of the motion (no thread waits forever on a device that reports
\* it), and a move_right called with wait_while_moving returns once the
\* other thread has stopped the motor, in every interleaving.
C40_WaitReturns ==
    /\ \A t \in Callers : []<>(~(Waits(t) /\ DeviceReportsRest))
    /\ \A t \in Movers :
        (Waits(t) /\ op[t] = "move_right" /\ DeviceStopped) ~> (pc[t] = "return")

\* C40 witness: the first caller waits in move_right while the second one
\* has transmitted MST within stop and the device has come to rest.
C40_Witness ==
    \E t \in Movers, u \in Callers \ Movers :
        /\ Waits(t) /\ op[t] = "move_right"
        /\ motors[0].moving
        /\ op[u] = "stop" /\ tx_count[u] = 1
        /\ DeviceStopped
        /\ device_axes[0].parameters[PARAMETER_VELOCITY_ACTUAL] = 0

=============================================================================
